---- MODULE Spec2Model ----
(***************************************************************************)
(* Model of the RFC 5322 / MIME message encoder buildRFC822 and its        *)
(* helpers.  A Go string or []byte is a sequence of byte values 0..255;    *)
(* every literal the code writes is spelled out as its bytes.              *)
(***************************************************************************)
EXTENDS Integers, Sequences, FiniteSets, TLC

(***************************************************************************)
(* Literals of the source, as bytes.                                       *)
(***************************************************************************)
\* HdrFrom: 'From'
HdrFrom == <<70, 114, 111, 109>>
\* HdrTo: 'To'
HdrTo == <<84, 111>>
\* HdrCc: 'Cc'
HdrCc == <<67, 99>>
\* HdrBcc: 'Bcc'
HdrBcc == <<66, 99, 99>>
\* HdrReplyTo: 'Reply-To'
HdrReplyTo == <<82, 101, 112, 108, 121, 45, 84, 111>>
\* HdrSubject: 'Subject'
HdrSubject == <<83, 117, 98, 106, 101, 99, 116>>
\* HdrDate: 'Date'
HdrDate == <<68, 97, 116, 101>>
\* HdrMessageID: 'Message-ID'
HdrMessageID == <<77, 101, 115, 115, 97, 103, 101, 45, 73, 68>>
\* HdrMessageId: 'Message-Id'
HdrMessageId == <<77, 101, 115, 115, 97, 103, 101, 45, 73, 100>>
\* HdrMIMEVersion: 'MIME-Version'
HdrMIMEVersion == <<77, 73, 77, 69, 45, 86, 101, 114, 115, 105, 111, 110>>
\* HdrInReplyTo: 'In-Reply-To'
HdrInReplyTo == <<73, 110, 45, 82, 101, 112, 108, 121, 45, 84, 111>>
\* HdrReferences: 'References'
HdrReferences == <<82, 101, 102, 101, 114, 101, 110, 99, 101, 115>>
\* HdrContentType: 'Content-Type'
HdrContentType == <<67, 111, 110, 116, 101, 110, 116, 45, 84, 121, 112, 101>>
\* HdrCTE: 'Content-Transfer-Encoding'
HdrCTE ==
  <<67, 111, 110, 116, 101, 110, 116, 45, 84, 114, 97, 110, 115, 102, 101, 114, 45, 69, 110, 99,
    111, 100, 105, 110, 103>>
\* HdrContentDisposition: 'Content-Disposition'
HdrContentDisposition ==
  <<67, 111, 110, 116, 101, 110, 116, 45, 68, 105, 115, 112, 111, 115, 105, 116, 105, 111, 110>>
\* StrColonSp: ': '
StrColonSp == <<58, 32>>
\* StrCommaSp: ', '
StrCommaSp == <<44, 32>>
\* CRLF: '\r\n'
CRLF == <<13, 10>>
\* StrDashDash: '--'
StrDashDash == <<45, 45>>
\* StrMimeVersion10: '1.0'
StrMimeVersion10 == <<49, 46, 48>>
\* Str7bit: '7bit'
Str7bit == <<55, 98, 105, 116>>
\* StrBase64: 'base64'
StrBase64 == <<98, 97, 115, 101, 54, 52>>
\* StrTextPlain: 'text/plain; charset="utf-8"'
StrTextPlain ==
  <<116, 101, 120, 116, 47, 112, 108, 97, 105, 110, 59, 32, 99, 104, 97, 114, 115, 101, 116, 61,
    34, 117, 116, 102, 45, 56, 34>>
\* StrTextHTML: 'text/html; charset="utf-8"'
StrTextHTML ==
  <<116, 101, 120, 116, 47, 104, 116, 109, 108, 59, 32, 99, 104, 97, 114, 115, 101, 116, 61, 34,
    117, 116, 102, 45, 56, 34>>
\* StrMultipartAlternative: 'multipart/alternative'
StrMultipartAlternative ==
  <<109, 117, 108, 116, 105, 112, 97, 114, 116, 47, 97, 108, 116, 101, 114, 110, 97, 116, 105, 118,
    101>>
\* StrMultipartMixed: 'multipart/mixed'
StrMultipartMixed == <<109, 117, 108, 116, 105, 112, 97, 114, 116, 47, 109, 105, 120, 101, 100>>
\* StrBoundaryParam: '; boundary='
StrBoundaryParam == <<59, 32, 98, 111, 117, 110, 100, 97, 114, 121, 61>>
\* StrAttachmentSp: 'attachment; '
StrAttachmentSp == <<97, 116, 116, 97, 99, 104, 109, 101, 110, 116, 59, 32>>
\* StrFilenameAttachment: 'filename="attachment"'
StrFilenameAttachment ==
  <<102, 105, 108, 101, 110, 97, 109, 101, 61, 34, 97, 116, 116, 97, 99, 104, 109, 101, 110, 116,
    34>>
\* StrFilenameEq: 'filename='
StrFilenameEq == <<102, 105, 108, 101, 110, 97, 109, 101, 61>>
\* StrFilenameStar: "filename*=UTF-8''"
StrFilenameStar == <<102, 105, 108, 101, 110, 97, 109, 101, 42, 61, 85, 84, 70, 45, 56, 39, 39>>
\* StrOctetStream: 'application/octet-stream'
StrOctetStream ==
  <<97, 112, 112, 108, 105, 99, 97, 116, 105, 111, 110, 47, 111, 99, 116, 101, 116, 45, 115, 116,
    114, 101, 97, 109>>
\* StrBoundaryTag: 'gogcli_'
StrBoundaryTag == <<103, 111, 103, 99, 108, 105, 95>>
\* StrDefaultDomain: 'gogcli.local'
StrDefaultDomain == <<103, 111, 103, 99, 108, 105, 46, 108, 111, 99, 97, 108>>
\* StrQWordOpen: '=?utf-8?q?'
StrQWordOpen == <<61, 63, 117, 116, 102, 45, 56, 63, 113, 63>>
\* StrQWordClose: '?='
StrQWordClose == <<63, 61>>
\* StrDateNow: 'Mon, 02 Jan 2006 15:04:05 -0700'
StrDateNow ==
  <<77, 111, 110, 44, 32, 48, 50, 32, 74, 97, 110, 32, 50, 48, 48, 54, 32, 49, 53, 58,
    48, 52, 58, 48, 53, 32, 45, 48, 55, 48, 48>>
\* StdAlphabet: 'ABCDEFGHIJKLMNOPQRSTUVWXYZabcdefghijklmnopqrstuvwxyz0123456789+/'
StdAlphabet ==
  <<65, 66, 67, 68, 69, 70, 71, 72, 73, 74, 75, 76, 77, 78, 79, 80, 81, 82, 83, 84,
    85, 86, 87, 88, 89, 90, 97, 98, 99, 100, 101, 102, 103, 104, 105, 106, 107, 108, 109, 110,
    111, 112, 113, 114, 115, 116, 117, 118, 119, 120, 121, 122, 48, 49, 50, 51, 52, 53, 54, 55,
    56, 57, 43, 47>>
\* URLAlphabet: 'ABCDEFGHIJKLMNOPQRSTUVWXYZabcdefghijklmnopqrstuvwxyz0123456789-_'
URLAlphabet ==
  <<65, 66, 67, 68, 69, 70, 71, 72, 73, 74, 75, 76, 77, 78, 79, 80, 81, 82, 83, 84,
    85, 86, 87, 88, 89, 90, 97, 98, 99, 100, 101, 102, 103, 104, 105, 106, 107, 108, 109, 110,
    111, 112, 113, 114, 115, 116, 117, 118, 119, 120, 121, 122, 48, 49, 50, 51, 52, 53, 54, 55,
    56, 57, 45, 95>>
\* UpperHex: '0123456789ABCDEF'
UpperHex == <<48, 49, 50, 51, 52, 53, 54, 55, 56, 57, 65, 66, 67, 68, 69, 70>>

(***************************************************************************)
(* Package strings.                                                        *)
(***************************************************************************)
\* unicode.IsSpace on single bytes: \t \n \v \f \r and space
IsSpace(c) == c \in {9, 10, 11, 12, 13, 32}

RECURSIVE TrimLeftSpace(_)
TrimLeftSpace(s) ==
  IF s = <<>> THEN s
  ELSE IF IsSpace(Head(s)) THEN TrimLeftSpace(Tail(s)) ELSE s

RECURSIVE TrimRightSpace(_)
TrimRightSpace(s) ==
  IF s = <<>> THEN s
  ELSE IF IsSpace(s[Len(s)]) THEN TrimRightSpace(SubSeq(s, 1, Len(s) - 1)) ELSE s

\* strings.TrimSpace
TrimSpace(s) == TrimRightSpace(TrimLeftSpace(s))

\* strings.Trim(s, cutset)
RECURSIVE TrimLeftSet(_, _)
TrimLeftSet(s, cut) ==
  IF s = <<>> THEN s
  ELSE IF Head(s) \in cut THEN TrimLeftSet(Tail(s), cut) ELSE s

RECURSIVE TrimRightSet(_, _)
TrimRightSet(s, cut) ==
  IF s = <<>> THEN s
  ELSE IF s[Len(s)] \in cut THEN TrimRightSet(SubSeq(s, 1, Len(s) - 1), cut) ELSE s

TrimSet(s, cut) == TrimRightSet(TrimLeftSet(s, cut), cut)

\* strings.Contains(s, x) for a one-byte x
ContainsByte(s, c) == \E i \in 1..Len(s) : s[i] = c

\* strings.Contains(s, sub)
ContainsStr(s, sub) ==
  \E i \in 1..(Len(s) - Len(sub) + 1) : SubSeq(s, i, i + Len(sub) - 1) = sub

\* the number of (possibly overlapping) places where sub occurs in s
CountStr(s, sub) ==
  Cardinality({i \in 1..(Len(s) - Len(sub) + 1) : SubSeq(s, i, i + Len(sub) - 1) = sub})

\* strings.HasPrefix / strings.HasSuffix
HasPrefix(s, p) == Len(s) >= Len(p) /\ SubSeq(s, 1, Len(p)) = p
HasSuffix(s, p) == Len(s) >= Len(p) /\ SubSeq(s, Len(s) - Len(p) + 1, Len(s)) = p

\* strings.LastIndex(s, x) for a one-byte x, 1-based; 0 when absent (Go: -1)
LastIndexByte(s, c) ==
  LET P == {i \in 1..Len(s) : s[i] = c}
  IN IF P = {} THEN 0 ELSE CHOOSE i \in P : \A j \in P : j <= i

\* strings.Join(elems, sep)
RECURSIVE Join(_, _)
Join(elems, sep) ==
  IF elems = <<>> THEN <<>>
  ELSE IF Len(elems) = 1 THEN elems[1]
  ELSE elems[1] \o sep \o Join(Tail(elems), sep)

\* ASCII lower-casing of one byte (strings.ToLower / simple case folding)
LowerByte(c) == IF c >= 65 /\ c <= 90 THEN c + 32 ELSE c
ToLower(s) == [i \in 1..Len(s) |-> LowerByte(s[i])]

\* strings.EqualFold on ASCII text
EqualFold(s, t) == ToLower(s) = ToLower(t)

\* strings.ReplaceAll(s, old, new) for a one-byte old
RECURSIVE ReplaceByte(_, _, _)
ReplaceByte(s, old, new) ==
  IF s = <<>> THEN <<>>
  ELSE (IF Head(s) = old THEN new ELSE <<Head(s)>>) \o ReplaceByte(Tail(s), old, new)

\* strings.ReplaceAll(s, "\r\n", "\n")
RECURSIVE ReplaceCRLFByLF(_)
ReplaceCRLFByLF(s) ==
  IF s = <<>> THEN <<>>
  ELSE IF Len(s) >= 2 /\ s[1] = 13 /\ s[2] = 10
       THEN <<10>> \o ReplaceCRLFByLF(SubSeq(s, 3, Len(s)))
       ELSE <<Head(s)>> \o ReplaceCRLFByLF(Tail(s))

(***************************************************************************)
(* Helpers of the encoder (src/unnamed/part_000).                          *)
(***************************************************************************)
\* the two errors.New values and the wrapped forms of fmt.Errorf("...: %w")
NoError == [text |-> "nil", cause |-> "nil"]
NewlineError == [text |-> "header value contains newline", cause |-> "nil"]
WrapError(text, err) == [text |-> text, cause |-> err.text]

\* a validateHeaderValue that forgets the carriage return
validateHeaderValueLFOnly(v) ==
  IF ContainsByte(v, 10) THEN NewlineError ELSE NoError

validateHeaderValue(v) ==
  IF ContainsByte(v, 13) \/ ContainsByte(v, 10) THEN NewlineError ELSE NoError

\* headers is a function from header names to values (a Go map)
hasHeader(headers, name) == \E k \in DOMAIN headers : EqualFold(k, name)

isASCII(s) == \A i \in 1..Len(s) : s[i] < 128

normalizeCRLF(s) ==
  ReplaceByte(ReplaceByte(ReplaceCRLFByLF(s), 13, <<10>>), 10, CRLF)

\* b.WriteString(name); b.WriteString(": "); b.WriteString(value); b.WriteString("\r\n")
writeHeader(buf, name, value) == buf \o name \o StrColonSp \o value \o CRLF

writeBodyWithTrailingCRLF(buf, body) ==
  IF HasSuffix(body, CRLF) THEN buf \o body ELSE buf \o body \o CRLF

writeTextPart(buf, boundary, contentType, body) ==
  writeBodyWithTrailingCRLF(
    buf \o StrDashDash \o boundary \o CRLF
        \o HdrContentType \o StrColonSp \o contentType \o CRLF
        \o HdrCTE \o StrColonSp \o Str7bit \o CRLF \o CRLF,
    body)

(***************************************************************************)
(* encoding/base64: StdEncoding (padded) and RawURLEncoding (unpadded).    *)
(***************************************************************************)
RECURSIVE Base64Encode(_, _, _)
Base64Encode(alphabet, padded, src) ==
  IF Len(src) >= 3 THEN
    LET v == src[1] * 65536 + src[2] * 256 + src[3]
    IN <<alphabet[(v \div 262144) + 1], alphabet[((v \div 4096) % 64) + 1],
         alphabet[((v \div 64) % 64) + 1], alphabet[(v % 64) + 1]>>
       \o Base64Encode(alphabet, padded, SubSeq(src, 4, Len(src)))
  ELSE IF Len(src) = 2 THEN
    LET v == src[1] * 65536 + src[2] * 256
    IN <<alphabet[(v \div 262144) + 1], alphabet[((v \div 4096) % 64) + 1],
         alphabet[((v \div 64) % 64) + 1]>> \o (IF padded THEN <<61>> ELSE <<>>)
  ELSE IF Len(src) = 1 THEN
    LET v == src[1] * 65536
    IN <<alphabet[(v \div 262144) + 1], alphabet[((v \div 4096) % 64) + 1]>>
       \o (IF padded THEN <<61, 61>> ELSE <<>>)
  ELSE <<>>

StdEncodeToString(src) == Base64Encode(StdAlphabet, TRUE, src)
RawURLEncodeToString(src) == Base64Encode(URLAlphabet, FALSE, src)

\* const width = 76
width == 76

RECURSIVE wrapLines(_)
wrapLines(s) ==
  IF Len(s) > width
  THEN SubSeq(s, 1, width) \o CRLF \o wrapLines(SubSeq(s, width + 1, Len(s)))
  ELSE s

\* a wrapBase64 that loses the last, shorter line
wrapBase64NoTail(data) ==
  LET enc == StdEncodeToString(data)
  IN SubSeq(wrapLines(enc), 1, Len(wrapLines(enc)) - (Len(enc) % width))

\* a wrapBase64 that ends every line, the last one too, with a line break
wrapBase64BreakAlways(data) ==
  IF data = <<>> THEN <<>> ELSE wrapLines(StdEncodeToString(data)) \o CRLF

wrapBase64(data) == wrapLines(StdEncodeToString(data))

\* var b [18]byte
BoundaryBytes == 18
\* var b [16]byte
MessageIDBytes == 16

\* randomBoundary once rand.Read has filled b with rnd
\* a randomBoundary that leaves the random value out
randomBoundaryFixed(rnd) == StrBoundaryTag

randomBoundary(rnd) == StrBoundaryTag \o RawURLEncodeToString(rnd)

(***************************************************************************)
(* mime.QEncoding.Encode("utf-8", v) (package mime, encodedword.go).       *)
(***************************************************************************)
\* maxContentLen = 75 - len("=?UTF-8?q?") - len("?=")
maxContentLen == 63

IsCont(s, i) == i <= Len(s) /\ s[i] >= 128 /\ s[i] <= 191

\* utf8.DecodeRuneInString(s[i:]): the width of the rune at i (1 when invalid)
RuneLen(s, i) ==
  LET c == s[i]
  IN IF c >= 194 /\ c <= 223 /\ IsCont(s, i + 1) THEN 2
     ELSE IF c >= 224 /\ c <= 239 /\ IsCont(s, i + 1) /\ IsCont(s, i + 2)
             /\ (c = 224 => s[i + 1] >= 160) /\ (c = 237 => s[i + 1] <= 159) THEN 3
     ELSE IF c >= 240 /\ c <= 244 /\ IsCont(s, i + 1) /\ IsCont(s, i + 2) /\ IsCont(s, i + 3)
             /\ (c = 240 => s[i + 1] >= 144) /\ (c = 244 => s[i + 1] <= 143) THEN 4
     ELSE 1

QPlain(c) == c >= 33 /\ c <= 126 /\ c # 61 /\ c # 63 /\ c # 95

RECURSIVE writeQString(_)
writeQString(s) ==
  IF s = <<>> THEN <<>>
  ELSE LET c == Head(s)
       IN (IF c = 32 THEN <<95>>
           ELSE IF QPlain(c) THEN <<c>>
           ELSE <<61, UpperHex[(c \div 16) + 1], UpperHex[(c % 16) + 1]>>)
          \o writeQString(Tail(s))

RECURSIVE qEncode(_, _, _)
qEncode(s, i, currentLen) ==
  IF i > Len(s) THEN <<>>
  ELSE LET c == s[i]
           single == c >= 32 /\ c <= 126 /\ c # 61 /\ c # 63 /\ c # 95
           runeLen == IF single THEN 1 ELSE RuneLen(s, i)
           encLen == IF single THEN 1 ELSE 3 * runeLen
           split == currentLen + encLen > maxContentLen
       IN (IF split THEN StrQWordClose \o <<32>> \o StrQWordOpen ELSE <<>>)
          \o writeQString(SubSeq(s, i, i + runeLen - 1))
          \o qEncode(s, i + runeLen, (IF split THEN 0 ELSE currentLen) + encLen)

\* needsEncoding: some byte is not printable ASCII and not a tab
needsEncoding(s) == \E i \in 1..Len(s) : (s[i] < 32 \/ s[i] > 126) /\ s[i] # 9

QEncodingEncode(s) ==
  IF needsEncoding(s) THEN StrQWordOpen \o qEncode(s, 1, 0) \o StrQWordClose ELSE s

\* an encodeHeaderIfNeeded that never encodes
encodeHeaderNever(v) == v

encodeHeaderIfNeeded(v) == IF isASCII(v) THEN v ELSE QEncodingEncode(v)

(***************************************************************************)
(* fmt %q (strconv.Quote) on ASCII text, net/url.QueryEscape.              *)
(***************************************************************************)
LowerHex == <<48, 49, 50, 51, 52, 53, 54, 55, 56, 57, 97, 98, 99, 100, 101, 102>>

QuoteByte(c) ==
  IF c = 34 THEN <<92, 34>>
  ELSE IF c = 92 THEN <<92, 92>>
  ELSE IF c = 7 THEN <<92, 97>>
  ELSE IF c = 8 THEN <<92, 98>>
  ELSE IF c = 12 THEN <<92, 102>>
  ELSE IF c = 10 THEN <<92, 110>>
  ELSE IF c = 13 THEN <<92, 114>>
  ELSE IF c = 9 THEN <<92, 116>>
  ELSE IF c = 11 THEN <<92, 118>>
  ELSE IF c < 32 \/ c = 127 THEN <<92, 120, LowerHex[(c \div 16) + 1], LowerHex[(c % 16) + 1]>>
  ELSE <<c>>

RECURSIVE QuoteBody(_)
QuoteBody(s) == IF s = <<>> THEN <<>> ELSE QuoteByte(Head(s)) \o QuoteBody(Tail(s))

\* fmt.Sprintf("%q", s) for s made of bytes below 0x80
Quote(s) == <<34>> \o QuoteBody(s) \o <<34>>

IsUnreserved(c) ==
  \/ (c >= 48 /\ c <= 57) \/ (c >= 65 /\ c <= 90) \/ (c >= 97 /\ c <= 122)
  \/ c \in {45, 95, 46, 126}

RECURSIVE QueryEscape(_)
QueryEscape(s) ==
  IF s = <<>> THEN <<>>
  ELSE LET c == Head(s)
       IN (IF c = 32 THEN <<43>>
           ELSE IF IsUnreserved(c) THEN <<c>>
           ELSE <<37, UpperHex[(c \div 16) + 1], UpperHex[(c % 16) + 1]>>)
          \o QueryEscape(Tail(s))

rfc5987Encode(s) == ReplaceByte(QueryEscape(s), 43, <<37, 50, 48>>)

contentDispositionFilename(filename) ==
  LET f == TrimSpace(filename)
  IN IF f = <<>> THEN StrFilenameAttachment
     ELSE IF isASCII(f) THEN StrFilenameEq \o Quote(f)
     ELSE StrFilenameStar \o rfc5987Encode(f)

(***************************************************************************)
(* path/filepath (slash-separated paths) and mime.TypeByExtension.         *)
(***************************************************************************)
\* filepath.Base
Base(path) ==
  LET p == TrimRightSet(path, {47})
  IN IF path = <<>> THEN <<46>>
     ELSE IF p = <<>> THEN <<47>>
     ELSE SubSeq(p, LastIndexByte(p, 47) + 1, Len(p))

\* filepath.Ext: from the last dot of the final path element
Ext(path) ==
  LET slash == LastIndexByte(path, 47)
      dot == LastIndexByte(path, 46)
  IN IF dot > slash THEN SubSeq(path, dot, Len(path)) ELSE <<>>

\* mime.TypeByExtension on the built-in table entries the model's names can hit
\* ".pdf" -> "application/pdf", ".html" -> "text/html; charset=utf-8"
TypeByExtension(ext) ==
  IF ext = <<46, 112, 100, 102>> THEN <<97, 112, 112, 108, 105, 99, 97, 116, 105, 111, 110, 47, 112, 100, 102>>
  ELSE IF ext = <<46, 104, 116, 109, 108>> THEN <<116, 101, 120, 116, 47, 104, 116, 109, 108, 59, 32, 99, 104, 97, 114, 115, 101, 116, 61, 117, 116, 102, 45, 56>>
  ELSE <<>>

(***************************************************************************)
(* net/mail.ParseAddress, for addr-spec and "phrase <addr-spec>" made of   *)
(* atoms (quoted strings, comments and domain literals are not modelled).  *)
(***************************************************************************)
IsAtext(c) ==
  \/ c >= 128
  \/ c >= 33 /\ c <= 126 /\ c \notin {40, 41, 60, 62, 91, 93, 58, 59, 64, 92, 44, 34}

RECURSIVE SkipSpace(_, _)
SkipSpace(s, i) ==
  IF i <= Len(s) /\ s[i] \in {32, 9} THEN SkipSpace(s, i + 1) ELSE i

RECURSIVE AtomEnd(_, _)
AtomEnd(s, i) == IF i <= Len(s) /\ IsAtext(s[i]) THEN AtomEnd(s, i + 1) ELSE i

\* consumeAtom(dot = true, permissive = false) on s[i..j-1]
StrictAtom(s, i, j) ==
  /\ j > i
  /\ s[i] # 46
  /\ s[j - 1] # 46
  /\ \A k \in i..(j - 2) : ~(s[k] = 46 /\ s[k + 1] = 46)

\* consumeAddrSpec at i: [ok, next, addr]
ConsumeAddrSpec(s, i) ==
  LET l0 == SkipSpace(s, i)
      l1 == AtomEnd(s, l0)
      d0 == SkipSpace(s, l1 + 1)
      d1 == AtomEnd(s, d0)
  IN IF /\ StrictAtom(s, l0, l1)
        /\ l1 <= Len(s) /\ s[l1] = 64
        /\ StrictAtom(s, d0, d1)
     THEN [ok |-> TRUE, next |-> d1,
           addr |-> SubSeq(s, l0, l1 - 1) \o <<64>> \o SubSeq(s, d0, d1 - 1)]
     ELSE [ok |-> FALSE, next |-> i, addr |-> <<>>]

\* consumePhrase at i: the index after the last word, i when there is no word
RECURSIVE PhraseEnd(_, _)
PhraseEnd(s, i) ==
  LET w0 == SkipSpace(s, i)
      w1 == AtomEnd(s, w0)
  IN IF w1 > w0 THEN PhraseEnd(s, w1) ELSE w0

ParseAddress(s) ==
  LET start == SkipSpace(s, 1)
      bare == ConsumeAddrSpec(s, start)
      p1 == IF start <= Len(s) /\ s[start] = 60 THEN start ELSE PhraseEnd(s, start)
      hasPhrase == (start <= Len(s) /\ s[start] = 60) \/ AtomEnd(s, start) > start
      lt == SkipSpace(s, p1)
      angle == ConsumeAddrSpec(s, lt + 1)
      fail == [ok |-> FALSE, addr |-> <<>>]
  IN IF start > Len(s) THEN fail
     ELSE IF bare.ok
     THEN IF SkipSpace(s, bare.next) > Len(s) THEN [ok |-> TRUE, addr |-> bare.addr] ELSE fail
     ELSE IF /\ hasPhrase
             /\ lt <= Len(s) /\ s[lt] = 60
             /\ angle.ok
             /\ angle.next <= Len(s) /\ s[angle.next] = 62
             /\ SkipSpace(s, angle.next + 1) > Len(s)
     THEN [ok |-> TRUE, addr |-> angle.addr]
     ELSE fail

\* randomMessageID once rand.Read has filled b with rnd
randomMessageID(from, rnd) ==
  LET parsed == ParseAddress(TrimSpace(from))
      atA == LastIndexByte(parsed.addr, 64)
      atF == LastIndexByte(from, 64)
      domain ==
        IF parsed.ok
        THEN IF atA # 0 /\ atA < Len(parsed.addr)
             THEN TrimSpace(SubSeq(parsed.addr, atA + 1, Len(parsed.addr)))
             ELSE StrDefaultDomain
        ELSE IF atF # 0 /\ atF < Len(from)
             THEN TrimSet(TrimSpace(SubSeq(from, atF + 1, Len(from))), {32, 62})
             ELSE StrDefaultDomain
  IN <<60>> \o RawURLEncodeToString(rnd) \o <<64>> \o domain \o <<62>>

(***************************************************************************)
(* The environment: the random source, the file system, the caller's       *)
(* memory.                                                                 *)
(***************************************************************************)
\* the number of distinct values a read of the random source can return
NRand == 2
\* the largest number of attachments of a request
MaxAtt == 2

\* the n bytes the random source returns as its p-th possible value
RandBytes(p, n) == [i \in 1..n |-> (p * 83 + i * 29) % 256]

RandError == [text |-> "rand: entropy unavailable", cause |-> "nil"]

\* the outcomes of rand.Read(b[:]) for an n-byte b
RandRead(n) ==
  {[ok |-> FALSE, bytes |-> <<>>]} \cup {[ok |-> TRUE, bytes |-> RandBytes(p, n)] : p \in 1..NRand}

\* the files that exist: "/d/x.pdf" holds "%PDF", "/d/e" is empty
Files == (<<47, 100, 47, 120, 46, 112, 100, 102>> :> <<37, 80, 68, 70>>) @@ (<<47, 100, 47, 101>> :> <<>>)

ReadFileError == [text |-> "open: no such file or directory", cause |-> "nil"]

\* os.ReadFile(path)
ReadFile(path) ==
  IF path \in DOMAIN Files THEN [ok |-> TRUE, data |-> Files[path]]
  ELSE [ok |-> FALSE, data |-> <<>>]

\* a Go slice of strings: offset into the caller's memory, length, capacity
Sl(off, len, cap) == [off |-> off, len |-> len, cap |-> cap]
NilSlice == Sl(0, 0, 0)

\* the elements of slice sl in memory mem
Elems(mem, sl) == [i \in 1..sl.len |-> mem[sl.off + i]]

\* a Go map with no entry
NoHeaders == [k \in {} |-> <<>>]

(***************************************************************************)
(* The requests the caller can pass.                                       *)
(***************************************************************************)
\* "a@b.c"; " "; "a\nb"; "\n"
FromValues == {<<97, 64, 98, 46, 99>>, <<32>>, <<97, 10, 98>>, <<10>>}

\* "Hi"; " "; "H\ri"; "G\xc3\xbc" (G, u-umlaut)
SubjectValues == {<<72, 105>>, <<32>>, <<72, 13, 105>>, <<71, 195, 188>>}

\* ""; "r@s"; " r@s "; "\n"; "r\ns"
ReplyToValues == {<<>>, <<114, 64, 115>>, <<32, 114, 64, 115, 32>>, <<10>>, <<114, 10, 115>>}

\* ""; "<m@n>"; "<m\n>"
InReplyToValues == {<<>>, <<60, 109, 64, 110, 62>>, <<60, 109, 10, 62>>}

\* ""; "<k@l> "; "\r"
ReferencesValues == {<<>>, <<60, 107, 64, 108, 62, 32>>, <<13>>}

\* the caller's memory holding the address strings, and To, Cc, Bcc as slices of it
AddressValues ==
  { \* To = ["c@d"]
    [mem |-> <<<<99, 64, 100>>>>, To |-> Sl(0, 1, 1), Cc |-> NilSlice, Bcc |-> NilSlice],
    \* To = [], Cc = ["e@f"]
    [mem |-> <<<<101, 64, 102>>>>, To |-> NilSlice, Cc |-> Sl(0, 1, 1), Bcc |-> NilSlice],
    \* To = [" "]
    [mem |-> <<<<32>>>>, To |-> Sl(0, 1, 1), Cc |-> NilSlice, Bcc |-> NilSlice],
    \* To = ["c\nd"]
    [mem |-> <<<<99, 10, 100>>>>, To |-> Sl(0, 1, 1), Cc |-> NilSlice, Bcc |-> NilSlice],
    \* To = ["c@d", "g@h"], Cc = ["e@f"], Bcc = ["i@j"], each with its own array
    [mem |-> <<<<99, 64, 100>>, <<103, 64, 104>>, <<101, 64, 102>>, <<105, 64, 106>>>>,
     To |-> Sl(0, 2, 2), Cc |-> Sl(2, 1, 1), Bcc |-> Sl(3, 1, 1)],
    \* To = ["c@d"], Cc = ["e\rf"]
    [mem |-> <<<<99, 64, 100>>, <<101, 13, 102>>>>, To |-> Sl(0, 1, 1), Cc |-> Sl(1, 1, 1), Bcc |-> NilSlice],
    \* To = ["c@d"], Bcc = ["i\nj"]
    [mem |-> <<<<99, 64, 100>>, <<105, 10, 106>>>>, To |-> Sl(0, 1, 1), Cc |-> NilSlice, Bcc |-> Sl(1, 1, 1)],
    \* all := ["e@f", "c@d"]; Cc = all[:1] (capacity 2), To = all[1:], Bcc = ["i@j"]
    [mem |-> <<<<101, 64, 102>>, <<99, 64, 100>>, <<105, 64, 106>>>>,
     To |-> Sl(1, 1, 1), Cc |-> Sl(0, 1, 2), Bcc |-> Sl(2, 1, 1)] }

\* AdditionalHeaders maps
HeaderMaps ==
  { NoHeaders,
    \* {"X-A": "v"}
    (<<88, 45, 65>> :> <<118>>),
    \* {"X-A": "v", "X-B": "w"}
    (<<88, 45, 65>> :> <<118>>) @@ (<<88, 45, 66>> :> <<119>>),
    \* {"Message-ID": "<x@y>"}
    (<<77, 101, 115, 115, 97, 103, 101, 45, 73, 68>> :> <<60, 120, 64, 121, 62>>),
    \* {"message-id": "<x@y>", "X-A": "v"}
    (<<109, 101, 115, 115, 97, 103, 101, 45, 105, 100>> :> <<60, 120, 64, 121, 62>>) @@ (<<88, 45, 65>> :> <<118>>),
    \* {"Message-ID": "<x@y>", "message-id": "<z@w>"}
    (<<77, 101, 115, 115, 97, 103, 101, 45, 73, 68>> :> <<60, 120, 64, 121, 62>>) @@ (<<109, 101, 115, 115, 97, 103, 101, 45, 105, 100>> :> <<60, 122, 64, 119, 62>>),
    \* {"MESSAGE-ID": " "}
    (<<77, 69, 83, 83, 65, 71, 69, 45, 73, 68>> :> <<32>>),
    \* {"X-A": "v\nw"}
    (<<88, 45, 65>> :> <<118, 10, 119>>),
    \* {"X-A": "\n", "X-B": "w"}
    (<<88, 45, 65>> :> <<10>>) @@ (<<88, 45, 66>> :> <<119>>),
    \* {" ": "v\r"}
    (<<32>> :> <<118, 13>>) }

\* a line that spells the delimiter of the boundary drawn from the first random value
DelimiterLine == StrDashDash \o randomBoundary(RandBytes(1, BoundaryBytes))

\* ""; "Hi"; " "; "a\nb"; "Hi\r\n"; "x\r\n--gogcli_...\r\ny"
BodyValues ==
  {<<>>, <<72, 105>>, <<32>>, <<97, 10, 98>>, <<72, 105, 13, 10>>, <<120, 13, 10>> \o DelimiterLine \o <<13, 10, 121>>}

\* a line that spells the closing line of that boundary
ClosingLine == DelimiterLine \o StrDashDash

\* ""; "<p>"; " "; "<p>\r\n--gogcli_...--"
BodyHTMLValues == {<<>>, <<60, 112, 62>>, <<32>>, <<60, 112, 62, 13, 10>> \o ClosingLine}

Att(path, filename, mimeType, data) ==
  [Path |-> path, Filename |-> filename, MIMEType |-> mimeType, Data |-> data]

\* the attachment descriptors a request can carry
AttachmentPool ==
  { \* Data only
    Att(<<>>, <<>>, <<>>, <<0, 255, 16>>),
    \* Path only, a file that exists
    Att(<<47, 100, 47, 120, 46, 112, 100, 102>>, <<>>, <<>>, <<>>),
    \* named, typed, with Data; the Path does not exist
    Att(<<47, 103, 111, 110, 101>>, <<71, 195, 188, 46, 116, 120, 116>>, <<116, 101, 120, 116, 47, 112, 108, 97, 105, 110>>, <<97, 98, 99>>),
    \* Path only, a file that does not exist
    Att(<<47, 103, 111, 110, 101>>, <<>>, <<>>, <<>>) }

\* the sequences of at most n distinct descriptors
RECURSIVE AttachmentLists(_)
AttachmentLists(n) ==
  IF n = 0 THEN {<<>>}
  ELSE LET shorter == AttachmentLists(n - 1)
       IN shorter \cup
          UNION {{Append(l, a) : a \in AttachmentPool \ {l[i] : i \in 1..Len(l)}} :
                 l \in {x \in shorter : Len(x) = n - 1}}

\* mailOptions, with To, Cc and Bcc as slices of the caller's memory
MkOpts(from, addr, replyTo, subject, body, bodyHTML, inReplyTo, references, headers, atts) ==
  [From |-> from, To |-> addr.To, Cc |-> addr.Cc, Bcc |-> addr.Bcc, ReplyTo |-> replyTo,
   Subject |-> subject, Body |-> body, BodyHTML |-> bodyHTML, InReplyTo |-> inReplyTo,
   References |-> references, AdditionalHeaders |-> headers, Attachments |-> atts]

\* From "a@b.c", To ["c@d"], Subject "Hi", Body "Hi"
PlainAddress == [mem |-> <<<<99, 64, 100>>>>, To |-> Sl(0, 1, 1), Cc |-> NilSlice, Bcc |-> NilSlice]
PlainFrom == <<97, 64, 98, 46, 99>>
PlainText == <<72, 105>>

\* requests that vary the sender, the recipients, the subject
AddressRequests ==
  {[opts |-> MkOpts(f, a, r, s, PlainText, <<>>, <<>>, <<>>, NoHeaders, <<>>), mem |-> a.mem] :
     f \in FromValues, a \in AddressValues, s \in SubjectValues, r \in {<<>>, <<32, 114, 64, 115, 32>>}}

\* requests that vary the optional headers
HeaderRequests ==
  {[opts |-> MkOpts(PlainFrom, PlainAddress, r, PlainText, PlainText, <<>>, i, x, h, <<>>),
    mem |-> PlainAddress.mem] :
     r \in ReplyToValues, i \in InReplyToValues, x \in ReferencesValues, h \in HeaderMaps}

\* requests that vary the bodies and the attachments
BodyRequests ==
  {[opts |-> MkOpts(PlainFrom, PlainAddress, <<>>, PlainText, p, h, <<>>, <<>>, NoHeaders, l),
    mem |-> PlainAddress.mem] :
     p \in BodyValues, h \in BodyHTMLValues, l \in AttachmentLists(MaxAtt)}

\* " Hi "; "\x01"; "=?utf-8?q?x?="; "\xff"; twelve times u-umlaut
MoreSubjectValues ==
  { <<32, 72, 105, 32>>, <<1>>, <<61, 63, 117, 116, 102, 45, 56, 63, 113, 63, 120, 63, 61>>, <<255>>,
    <<195, 188, 195, 188, 195, 188, 195, 188, 195, 188, 195, 188, 195, 188, 195, 188, 195, 188, 195, 188, 195, 188, 195, 188>> }

\* requests that vary the subject alone
SubjectRequests ==
  {[opts |-> MkOpts(PlainFrom, PlainAddress, <<>>, s, PlainText, <<>>, <<>>, <<>>, NoHeaders, <<>>),
    mem |-> PlainAddress.mem] : s \in MoreSubjectValues}

\* more attachment descriptors, each sent alone
MoreAttachments ==
  {
    \* Path "/d/x.pdf", Filename " ", with Data
    Att(<<47, 100, 47, 120, 46, 112, 100, 102>>, <<32>>, <<>>, <<97, 98, 99>>),
    \* Filename "a b+.txt", with Data
    Att(<<>>, <<97, 32, 98, 43, 46, 116, 120, 116>>, <<>>, <<97, 98, 99>>),
    \* Filename "G \xc3\xbc+.txt" (G, space, u-umlaut), with Data
    Att(<<>>, <<71, 32, 195, 188, 43, 46, 116, 120, 116>>, <<>>, <<97, 98, 99>>),
    \* Filename "a\nb", with Data
    Att(<<>>, <<97, 10, 98>>, <<>>, <<97, 98, 99>>),
    \* Filename "\xc3\xbc\nb", with Data
    Att(<<>>, <<195, 188, 10, 98>>, <<>>, <<97, 98, 99>>),
    \* Filename "f", MIMEType "text/plain\r\nX-Evil: 1", with Data
    Att(<<>>, <<102>>, <<116, 101, 120, 116, 47, 112, 108, 97, 105, 110, 13, 10, 88, 45, 69, 118, 105, 108, 58, 32, 49>>, <<97, 98, 99>>),
    \* Filename "X.PDF", with Data
    Att(<<>>, <<88, 46, 80, 68, 70>>, <<>>, <<97, 98, 99>>),
    \* Path only, an empty file
    Att(<<47, 100, 47, 101>>, <<>>, <<>>, <<>>),
    \* Path "/d/x.pdf", Filename "n.html", MIMEType " "
    Att(<<47, 100, 47, 120, 46, 112, 100, 102>>, <<110, 46, 104, 116, 109, 108>>, <<32>>, <<>>) }

\* requests that carry one of them
AttachmentRequests ==
  {[opts |-> MkOpts(PlainFrom, PlainAddress, <<>>, PlainText, PlainText, <<>>, <<>>, <<>>, NoHeaders, <<a>>),
    mem |-> PlainAddress.mem] : a \in MoreAttachments}

\* bodies with bytes of 0x80 and more: "G\xc3\xbc" (G, u-umlaut); "<p>\xff"
EightBitBodies == {<<71, 195, 188>>}
EightBitBodiesHTML == {<<60, 112, 62, 255>>}

\* requests whose plain body, HTML body or both hold such bytes, with no
\* attachment or with one
EightBitRequests ==
  {[opts |-> MkOpts(PlainFrom, PlainAddress, <<>>, PlainText, p, h, <<>>, <<>>, NoHeaders, l),
    mem |-> PlainAddress.mem] :
     p \in EightBitBodies \cup {PlainText, <<>>}, h \in EightBitBodiesHTML \cup {<<>>},
     l \in {<<>>, <<Att(<<>>, <<102>>, <<>>, <<97, 98, 99>>)>>}}

Requests == AddressRequests \cup HeaderRequests \cup BodyRequests \cup SubjectRequests
              \cup AttachmentRequests \cup EightBitRequests

(***************************************************************************)
(* buildRFC822 as a state machine: one action per block of its body.       *)
(***************************************************************************)
VARIABLES
  opts,           \* the request (the parameter opts)
  mem,            \* the caller's memory behind opts.To, opts.Cc, opts.Bcc
  mem0,           \* the caller's memory when buildRFC822 was called
  b,              \* var b bytes.Buffer
  pc,             \* the position in buildRFC822
  ret,            \* the returned ([]byte, error), meaningful when pc = "done"
  pending,        \* keys of opts.AdditionalHeaders the range loop has not visited
  mixedBoundary,  \* the local mixedBoundary ("" before it is drawn)
  altBoundary,    \* the local altBoundary ("" before it is drawn)
  attIdx,         \* the index of the next attachment of the range loop
  draws,          \* the outcomes of the rand.Read calls made so far
  resolved,       \* the resolved copies a of the attachments emitted so far
  reads,          \* the paths passed to os.ReadFile so far
  args,           \* the arguments of a helper called on its own
  result,         \* what that helper returned
  cancelled,      \* fetchThreadDetails: ctx.Done() is closed
  sem,            \* the number of values in the channel sem
  results,        \* the values in the channel results, oldest first
  closed,         \* close(results) has run
  wg,             \* the counter of the sync.WaitGroup wg
  threadIdx,      \* the index i of the range over threads
  wpc,            \* the position of the goroutine started for each index
  res,            \* the result each goroutine has built
  sent,           \* how many results each goroutine has sent on results
  items           \* the slice items of the collector

\* the variables of fetchThreadDetails
fetchVars == <<cancelled, sem, results, closed, wg, threadIdx, wpc, res, sent, items>>

vars == <<opts, mem, mem0, b, pc, ret, pending, mixedBoundary, altBoundary, attIdx, draws,
          resolved, reads, args, result, fetchVars>>

\* fetchThreadDetails has not been called
FetchIdle ==
  /\ cancelled = FALSE /\ sem = 0 /\ results = <<>> /\ closed = FALSE /\ wg = 0 /\ threadIdx = 1
  /\ wpc = <<>> /\ res = <<>> /\ sent = <<>> /\ items = <<>>

Init ==
  /\ \E r \in Requests : opts = r.opts /\ mem = r.mem /\ mem0 = r.mem
  /\ b = <<>>
  /\ pc = "start"
  /\ ret = [nil |-> TRUE, bytes |-> <<>>, err |-> NoError]
  /\ pending = DOMAIN opts.AdditionalHeaders
  /\ mixedBoundary = <<>>
  /\ altBoundary = <<>>
  /\ attIdx = 1
  /\ draws = <<>>
  /\ resolved = <<>>
  /\ reads = <<>>
  /\ args = <<>>
  /\ result = <<>>
  /\ FetchIdle

\* a return that hands out the buffer written so far together with the error
ReturnPartial(buf, err) == [nil |-> FALSE, bytes |-> buf, err |-> err]

\* return nil, err
ReturnError(buf, err) == [nil |-> TRUE, bytes |-> <<>>, err |-> err]
\* return b.Bytes(), nil
ReturnBytes(buf) == [nil |-> FALSE, bytes |-> buf, err |-> NoError]

MissingFrom == [text |-> "missing From", cause |-> "nil"]
MissingTo == [text |-> "missing To", cause |-> "nil"]
MissingSubject == [text |-> "missing Subject", cause |-> "nil"]

\* the three checks at the head of buildRFC822
checkRequired(o) ==
  IF TrimSpace(o.From) = <<>> THEN MissingFrom
  ELSE IF o.To.len = 0 THEN MissingTo
  ELSE IF TrimSpace(o.Subject) = <<>> THEN MissingSubject
  ELSE NoError

CheckRequired ==
  /\ pc = "start"
  /\ LET err == checkRequired(opts)
     IN IF err # NoError
        THEN pc' = "done" /\ ret' = ReturnError(b, err)
        ELSE pc' = "validate" /\ ret' = ret
  /\ UNCHANGED <<fetchVars, args, result, opts, mem0, mem, b, pending, mixedBoundary, altBoundary, attIdx, draws,
                 resolved, reads>>

\* the memory after append(cc, bcc...): the elements of bcc are stored behind cc
\* when cc has the capacity, and in a fresh array otherwise
appendInPlace(m, cc, bcc) ==
  IF bcc.len > 0 /\ cc.len + bcc.len <= cc.cap
  THEN [i \in 1..Len(m) |->
          IF i > cc.off + cc.len /\ i <= cc.off + cc.len + bcc.len
          THEN m[bcc.off + (i - cc.off - cc.len)]
          ELSE m[i]]
  ELSE m

\* append(append([]string{}, opts.To...), append(opts.Cc, opts.Bcc...)...)
allAddresses(m, o) == Elems(m, o.To) \o Elems(m, o.Cc) \o Elems(m, o.Bcc)

\* the first error of validateHeaderValue over the values, in order
RECURSIVE firstInvalid(_)
firstInvalid(values) ==
  IF values = <<>> THEN NoError
  ELSE IF validateHeaderValue(Head(values)) # NoError THEN validateHeaderValue(Head(values))
  ELSE firstInvalid(Tail(values))

ValidateAddresses ==
  /\ pc = "validate"
  /\ LET fromErr == validateHeaderValue(opts.From)
         addrErr == firstInvalid(allAddresses(mem, opts))
     IN IF fromErr # NoError
        THEN /\ pc' = "done"
             /\ ret' = ReturnError(b, WrapError("invalid From", fromErr))
             /\ mem' = mem
        ELSE /\ mem' = appendInPlace(mem, opts.Cc, opts.Bcc)
             /\ IF addrErr # NoError
                THEN pc' = "done" /\ ret' = ReturnError(b, WrapError("invalid address", addrErr))
                ELSE pc' = "addresses" /\ ret' = ret
  /\ UNCHANGED <<fetchVars, args, result, opts, mem0, b, pending, mixedBoundary, altBoundary, attIdx, draws, resolved, reads>>

\* the From, To, Cc and Bcc header lines
\* an addressHeaders that writes nothing
addressHeadersNone(buf, m, o) == buf

addressHeaders(buf, m, o) ==
  LET b1 == writeHeader(buf, HdrFrom, o.From)
      b2 == writeHeader(b1, HdrTo, Join(Elems(m, o.To), StrCommaSp))
      b3 == IF o.Cc.len > 0 THEN writeHeader(b2, HdrCc, Join(Elems(m, o.Cc), StrCommaSp)) ELSE b2
  IN IF o.Bcc.len > 0 THEN writeHeader(b3, HdrBcc, Join(Elems(m, o.Bcc), StrCommaSp)) ELSE b3

WriteAddressHeaders ==
  /\ pc = "addresses"
  /\ b' = addressHeaders(b, mem, opts)
  /\ pc' = "replyto"
  /\ UNCHANGED <<fetchVars, args, result, opts, mem0, mem, ret, pending, mixedBoundary, altBoundary, attIdx, draws,
                 resolved, reads>>

\* an optional header: skipped when blank, validated, written trimmed
\* [err, buf]
\* an optionalHeader that writes the value as supplied
optionalHeaderUntrimmed(buf, name, value, errText) ==
  IF TrimSpace(value) = <<>> THEN [err |-> NoError, buf |-> buf]
  ELSE IF validateHeaderValue(value) # NoError
  THEN [err |-> WrapError(errText, validateHeaderValue(value)), buf |-> buf]
  ELSE [err |-> NoError, buf |-> writeHeader(buf, name, value)]

optionalHeader(buf, name, value, errText) ==
  IF TrimSpace(value) = <<>> THEN [err |-> NoError, buf |-> buf]
  ELSE IF validateHeaderValue(value) # NoError
  THEN [err |-> WrapError(errText, validateHeaderValue(value)), buf |-> buf]
  ELSE [err |-> NoError, buf |-> writeHeader(buf, name, TrimSpace(value))]

ReplyToHeader ==
  /\ pc = "replyto"
  /\ LET r == optionalHeader(b, HdrReplyTo, opts.ReplyTo, "invalid Reply-To")
     IN IF r.err # NoError
        THEN pc' = "done" /\ ret' = ReturnError(b, r.err) /\ b' = b
        ELSE pc' = "subject" /\ ret' = ret /\ b' = r.buf
  /\ UNCHANGED <<fetchVars, args, result, opts, mem0, mem, pending, mixedBoundary, altBoundary, attIdx, draws, resolved, reads>>

\* the Subject and Date header lines
\* a subjectHeaders that writes Date before Subject
subjectHeadersDateFirst(buf, o) ==
  writeHeader(writeHeader(buf, HdrDate, StrDateNow), HdrSubject, encodeHeaderIfNeeded(o.Subject))

subjectHeaders(buf, o) ==
  writeHeader(writeHeader(buf, HdrSubject, encodeHeaderIfNeeded(o.Subject)), HdrDate, StrDateNow)

SubjectHeader ==
  /\ pc = "subject"
  /\ LET err == validateHeaderValue(opts.Subject)
     IN IF err # NoError
        THEN pc' = "done" /\ ret' = ReturnError(b, WrapError("invalid Subject", err)) /\ b' = b
        ELSE pc' = "messageid" /\ ret' = ret /\ b' = subjectHeaders(b, opts)
  /\ UNCHANGED <<fetchVars, args, result, opts, mem0, mem, pending, mixedBoundary, altBoundary, attIdx, draws, resolved, reads>>

\* !hasHeader(opts.AdditionalHeaders, "Message-ID") && !hasHeader(opts.AdditionalHeaders, "Message-Id")
\* a generatesMessageID that compares the keys letter for letter
generatesMessageIDExact(o) ==
  /\ HdrMessageID \notin DOMAIN o.AdditionalHeaders
  /\ HdrMessageId \notin DOMAIN o.AdditionalHeaders

generatesMessageID(o) ==
  ~hasHeader(o.AdditionalHeaders, HdrMessageID) /\ ~hasHeader(o.AdditionalHeaders, HdrMessageId)

MessageIDHeader ==
  /\ pc = "messageid"
  /\ IF generatesMessageID(opts)
     THEN \E r \in RandRead(MessageIDBytes) :
            /\ draws' = Append(draws, r)
            /\ IF ~r.ok
               THEN pc' = "done" /\ ret' = ReturnError(b, RandError) /\ b' = b
               ELSE /\ pc' = "threading"
                    /\ ret' = ret
                    /\ b' = writeHeader(b, HdrMessageID, randomMessageID(opts.From, r.bytes))
     ELSE pc' = "threading" /\ UNCHANGED <<b, ret, draws>>
  /\ UNCHANGED <<fetchVars, args, result, opts, mem0, mem, pending, mixedBoundary, altBoundary, attIdx, resolved, reads>>

\* where buildRFC822 continues once the range over AdditionalHeaders is over
afterHeaders(o) == IF Len(o.Attachments) = 0 THEN "body" ELSE "mixed"

ThreadingHeaders ==
  /\ pc = "threading"
  /\ LET b1 == writeHeader(b, HdrMIMEVersion, StrMimeVersion10)
         r1 == optionalHeader(b1, HdrInReplyTo, opts.InReplyTo, "invalid In-Reply-To")
         r2 == optionalHeader(r1.buf, HdrReferences, opts.References, "invalid References")
     IN IF r1.err # NoError
        THEN pc' = "done" /\ ret' = ReturnError(b1, r1.err) /\ b' = b1
        ELSE IF r2.err # NoError
        THEN pc' = "done" /\ ret' = ReturnError(r1.buf, r2.err) /\ b' = r1.buf
        ELSE /\ pc' = (IF pending = {} THEN afterHeaders(opts) ELSE "additional")
             /\ ret' = ret
             /\ b' = r2.buf
  /\ UNCHANGED <<fetchVars, args, result, opts, mem0, mem, pending, mixedBoundary, altBoundary, attIdx, draws, resolved, reads>>

\* one iteration of: for k, v := range opts.AdditionalHeaders (the order is not fixed)
AdditionalHeader ==
  /\ pc = "additional"
  /\ \E k \in pending :
       LET v == opts.AdditionalHeaders[k]
           err == validateHeaderValue(v)
       IN IF TrimSpace(k) # <<>> /\ TrimSpace(v) # <<>> /\ err # NoError
          THEN /\ pc' = "done"
               /\ ret' = ReturnError(b, [text |-> "invalid header", key |-> k, cause |-> err.text])
               /\ UNCHANGED <<b, pending>>
          ELSE /\ b' = (IF TrimSpace(k) # <<>> /\ TrimSpace(v) # <<>>
                        THEN writeHeader(b, k, v) ELSE b)
               /\ pending' = pending \ {k}
               /\ pc' = (IF pending' = {} THEN afterHeaders(opts) ELSE "additional")
               /\ ret' = ret
  /\ UNCHANGED <<fetchVars, args, result, opts, mem0, mem, mixedBoundary, altBoundary, attIdx, draws, resolved, reads>>

plainBody(o) == normalizeCRLF(o.Body)
htmlBody(o) == normalizeCRLF(o.BodyHTML)
hasPlain(o) == TrimSpace(plainBody(o)) # <<>>
\* a hasHTML that forgets to trim
hasHTMLUntrimmed(o) == htmlBody(o) # <<>>

hasHTML(o) == TrimSpace(htmlBody(o)) # <<>>

\* the two text parts without the closing line of the region
alternativePartsUnclosed(buf, boundary, o) ==
  writeTextPart(writeTextPart(buf, boundary, StrTextPlain, plainBody(o)),
                boundary, StrTextHTML, htmlBody(o))

\* the two text parts and the closing line of a multipart/alternative region
alternativeParts(buf, boundary, o) ==
  writeTextPart(writeTextPart(buf, boundary, StrTextPlain, plainBody(o)),
                boundary, StrTextHTML, htmlBody(o))
  \o StrDashDash \o boundary \o StrDashDash \o CRLF

\* case hasPlain && hasHTML of the switch without attachments
alternativeMessage(buf, boundary, o) ==
  alternativeParts(
    writeHeader(buf, HdrContentType, StrMultipartAlternative \o StrBoundaryParam \o Quote(boundary))
      \o CRLF,
    boundary, o)

\* the single-part cases of the switch without attachments
singlePartMessage(buf, contentType, body) ==
  writeBodyWithTrailingCRLF(
    writeHeader(writeHeader(buf, HdrContentType, contentType), HdrCTE, Str7bit) \o CRLF,
    body)

\* if len(opts.Attachments) == 0 { switch ... }
BodyWithoutAttachments ==
  /\ pc = "body"
  /\ IF hasPlain(opts) /\ hasHTML(opts)
     THEN \E r \in RandRead(BoundaryBytes) :
            /\ draws' = Append(draws, r)
            /\ IF ~r.ok
               THEN /\ ret' = ReturnError(b, RandError)
                    /\ UNCHANGED <<b, altBoundary>>
               ELSE /\ altBoundary' = randomBoundary(r.bytes)
                    /\ b' = alternativeMessage(b, altBoundary', opts)
                    /\ ret' = ReturnBytes(b')
     ELSE /\ b' = (IF hasHTML(opts)
                   THEN singlePartMessage(b, StrTextHTML, htmlBody(opts))
                   ELSE singlePartMessage(b, StrTextPlain, plainBody(opts)))
          /\ ret' = ReturnBytes(b')
          /\ UNCHANGED <<draws, altBoundary>>
  /\ pc' = "done"
  /\ UNCHANGED <<fetchVars, args, result, opts, mem0, mem, pending, mixedBoundary, attIdx, resolved, reads>>

\* mixedBoundary, err := randomBoundary() and the multipart/mixed Content-Type
MixedHeader ==
  /\ pc = "mixed"
  /\ \E r \in RandRead(BoundaryBytes) :
       /\ draws' = Append(draws, r)
       /\ IF ~r.ok
          THEN /\ pc' = "done"
               /\ ret' = ReturnError(b, RandError)
               /\ UNCHANGED <<b, mixedBoundary>>
          ELSE /\ mixedBoundary' = randomBoundary(r.bytes)
               /\ b' = writeHeader(b, HdrContentType,
                                   StrMultipartMixed \o StrBoundaryParam \o Quote(mixedBoundary'))
                       \o CRLF
               /\ pc' = "mixedbody"
               /\ ret' = ret
  /\ UNCHANGED <<fetchVars, args, result, opts, mem0, mem, pending, altBoundary, attIdx, resolved, reads>>

\* a single text part inside the mixed region
mixedTextPart(buf, contentType, body) ==
  writeBodyWithTrailingCRLF(
    buf \o HdrContentType \o StrColonSp \o contentType \o CRLF
        \o HdrCTE \o StrColonSp \o Str7bit \o CRLF \o CRLF,
    body)

\* the nested multipart/alternative part inside the mixed region
mixedAlternativePart(buf, boundary, o) ==
  alternativeParts(
    buf \o HdrContentType \o StrColonSp \o StrMultipartAlternative \o StrBoundaryParam
        \o Quote(boundary) \o CRLF \o CRLF,
    boundary, o)

\* // Body part
MixedBody ==
  /\ pc = "mixedbody"
  /\ LET b1 == b \o StrDashDash \o mixedBoundary \o CRLF
     IN IF hasPlain(opts) /\ hasHTML(opts)
        THEN \E r \in RandRead(BoundaryBytes) :
               /\ draws' = Append(draws, r)
               /\ IF ~r.ok
                  THEN /\ pc' = "done"
                       /\ ret' = ReturnError(b1, RandError)
                       /\ b' = b1
                       /\ altBoundary' = altBoundary
                  ELSE /\ altBoundary' = randomBoundary(r.bytes)
                       /\ b' = mixedAlternativePart(b1, altBoundary', opts)
                       /\ pc' = "attachments"
                       /\ ret' = ret
        ELSE /\ b' = (IF hasHTML(opts)
                      THEN mixedTextPart(b1, StrTextHTML, htmlBody(opts))
                      ELSE mixedTextPart(b1, StrTextPlain, plainBody(opts)))
             /\ pc' = "attachments"
             /\ UNCHANGED <<ret, draws, altBoundary>>
  /\ UNCHANGED <<fetchVars, args, result, opts, mem0, mem, pending, mixedBoundary, attIdx, resolved, reads>>

\* the filename and MIME type the loop fills into its copy a of an attachment
\* a resolveFilename that never looks at the Path
resolveFilenameKeep(a) == a.Filename

resolveFilename(a) == IF a.Filename = <<>> THEN Base(a.Path) ELSE a.Filename
resolveMIMEType(a) ==
  LET byExt == TypeByExtension(ToLower(Ext(resolveFilename(a))))
  IN IF a.MIMEType # <<>> THEN a.MIMEType
     ELSE IF byExt = <<>> THEN StrOctetStream ELSE byExt

\* an attachment part that leaves out the Content-Disposition line
attachmentPartNoDisposition(buf, boundary, a) ==
  buf \o CRLF \o StrDashDash \o boundary \o CRLF
      \o HdrContentType \o StrColonSp \o a.MIMEType \o CRLF
      \o HdrCTE \o StrColonSp \o StrBase64 \o CRLF \o CRLF
      \o wrapBase64(a.Data) \o CRLF

\* the part of one attachment a, resolved
attachmentPart(buf, boundary, a) ==
  buf \o CRLF \o StrDashDash \o boundary \o CRLF
      \o HdrContentType \o StrColonSp \o a.MIMEType \o CRLF
      \o HdrCTE \o StrColonSp \o StrBase64 \o CRLF
      \o HdrContentDisposition \o StrColonSp \o StrAttachmentSp
      \o contentDispositionFilename(a.Filename) \o CRLF \o CRLF
      \o wrapBase64(a.Data) \o CRLF

\* one iteration of: for _, a := range opts.Attachments
Attachment ==
  /\ pc = "attachments"
  /\ attIdx <= Len(opts.Attachments)
  /\ LET a0 == opts.Attachments[attIdx]
         needsRead == Len(a0.Data) = 0
         file == ReadFile(a0.Path)
         a == [a0 EXCEPT !.Filename = resolveFilename(a0),
                         !.MIMEType = resolveMIMEType(a0),
                         !.Data = IF needsRead THEN file.data ELSE a0.Data]
     IN /\ reads' = (IF needsRead THEN Append(reads, a0.Path) ELSE reads)
        /\ IF needsRead /\ ~file.ok
           THEN /\ pc' = "done"
                /\ ret' = ReturnError(b, ReadFileError)
                /\ UNCHANGED <<b, attIdx, resolved>>
           ELSE /\ b' = attachmentPart(b, mixedBoundary, a)
                /\ resolved' = Append(resolved, a)
                /\ attIdx' = attIdx + 1
                /\ UNCHANGED <<pc, ret>>
  /\ UNCHANGED <<fetchVars, args, result, opts, mem0, mem, pending, mixedBoundary, altBoundary, draws>>

\* b.WriteString(fmt.Sprintf("--%s--\r\n", mixedBoundary)); return b.Bytes(), nil
MixedClose ==
  /\ pc = "attachments"
  /\ attIdx > Len(opts.Attachments)
  /\ b' = b \o StrDashDash \o mixedBoundary \o StrDashDash \o CRLF
  /\ ret' = ReturnBytes(b')
  /\ pc' = "done"
  /\ UNCHANGED <<fetchVars, args, result, opts, mem0, mem, pending, mixedBoundary, altBoundary, attIdx, draws, resolved, reads>>

Next ==
  \/ CheckRequired
  \/ ValidateAddresses
  \/ WriteAddressHeaders
  \/ ReplyToHeader
  \/ SubjectHeader
  \/ MessageIDHeader
  \/ ThreadingHeaders
  \/ AdditionalHeader
  \/ BodyWithoutAttachments
  \/ MixedHeader
  \/ MixedBody
  \/ Attachment
  \/ MixedClose

Spec == Init /\ [][Next]_vars

(***************************************************************************)
(* Properties.                                                             *)
(***************************************************************************)
HasNewline(v) == ContainsByte(v, 13) \/ ContainsByte(v, 10)
Blank(v) == TrimSpace(v) = <<>>
Done == pc = "done"
Succeeded == pc = "done" /\ ret.err = NoError
IsMissingField(err) == err \in {MissingFrom, MissingTo, MissingSubject}
IsInvalidHeader(err) == err.cause = "header value contains newline"

\* the addresses of the request as the caller passed them
ToList == Elems(mem0, opts.To)
CcList == Elems(mem0, opts.Cc)
BccList == Elems(mem0, opts.Bcc)
Range(seq) == {seq[i] : i \in 1..Len(seq)}

\* every header-bound string of the request
HeaderBound ==
  {opts.From, opts.ReplyTo, opts.Subject, opts.InReplyTo, opts.References}
  \cup Range(ToList) \cup Range(CcList) \cup Range(BccList)
  \cup {opts.AdditionalHeaders[k] : k \in DOMAIN opts.AdditionalHeaders}

RequiredMissing == Blank(opts.From) \/ opts.To.len = 0 \/ Blank(opts.Subject)

\* a line break in a value that is checked before the Message-ID is generated
EarlyNewline ==
  \/ HasNewline(opts.From)
  \/ \E a \in Range(ToList) \cup Range(CcList) \cup Range(BccList) : HasNewline(a)
  \/ ~Blank(opts.ReplyTo) /\ HasNewline(opts.ReplyTo)
  \/ HasNewline(opts.Subject)

\* a line break in a value that is checked after the Message-ID is generated
LateNewline ==
  \/ ~Blank(opts.InReplyTo) /\ HasNewline(opts.InReplyTo)
  \/ ~Blank(opts.References) /\ HasNewline(opts.References)
  \/ \E k \in DOMAIN opts.AdditionalHeaders :
       ~Blank(k) /\ ~Blank(opts.AdditionalHeaders[k]) /\ HasNewline(opts.AdditionalHeaders[k])

\* C1 as stated: a CR or LF in any header-bound string, whatever else the value
\* holds, makes buildRFC822 return the invalid-header error and no message.
C1_AnyNewlineIsInvalidHeader ==
  Done /\ (\E v \in HeaderBound : HasNewline(v)) => ret.nil /\ IsInvalidHeader(ret.err)

\* C1 amended: a CR or LF in From, an address or Subject, in a non-blank ReplyTo,
\* InReplyTo or References, or in the non-blank value of an AdditionalHeaders entry
\* with a non-blank key, makes buildRFC822 return an error and no message; the error
\* is the missing-field error when a required field is missing, else the
\* invalid-header error, except that a failure of the random source while the
\* Message-ID is generated comes first for InReplyTo, References and
\* AdditionalHeaders.
C1_EmittedNewlineIsRejected ==
  Done /\ (EarlyNewline \/ LateNewline) =>
    /\ ret.nil /\ ret.bytes = <<>> /\ ret.err # NoError
    /\ RequiredMissing => IsMissingField(ret.err)
    /\ ~RequiredMissing /\ EarlyNewline => IsInvalidHeader(ret.err)
    /\ ~RequiredMissing /\ ~EarlyNewline =>
         \/ IsInvalidHeader(ret.err)
         \/ ret.err = RandError /\ draws = <<[ok |-> FALSE, bytes |-> <<>>]>>

\* C1 witness: a line break in an additional header is rejected after header lines
\* were written to the buffer
C1_Witness ==
  Done /\ LateNewline /\ ~EarlyNewline /\ IsInvalidHeader(ret.err) /\ b # <<>> /\ ret.nil

RequiredPresent ==
  /\ ~Blank(opts.From)
  /\ \E a \in Range(ToList) : ~Blank(a)
  /\ ~Blank(opts.Subject)

\* C2: buildRFC822 succeeds only if From, some To address and Subject are non-blank
\* after trimming, and fails with a missing-field error in every other case.
C2_RequiredFields ==
  Done => /\ ret.err = NoError => RequiredPresent
          /\ ~RequiredPresent => ret.nil /\ IsMissingField(ret.err)

\* C3: a failed buildRFC822 returns the underlying error and no bytes; a failed
\* random draw or file read is never replaced by a substitute value.
C3_FailureReturnsNoBytes ==
  /\ ~Done => ret.nil /\ ret.err = NoError
  /\ Done =>
       /\ ret.err # NoError => ret.nil /\ ret.bytes = <<>>
       /\ ret.err = NoError => ~ret.nil /\ ret.bytes = b /\ b # <<>>
       /\ (\E i \in 1..Len(draws) : ~draws[i].ok) => ret.err = RandError
       /\ (\E i \in 1..Len(reads) : reads[i] \notin DOMAIN Files) => ret.err = ReadFileError

\* C3 witness: an attachment cannot be read after part of the message was written
C3_Witness ==
  Done /\ ret.err = ReadFileError /\ Len(resolved) = 1 /\ b # <<>> /\ ret.nil

(***************************************************************************)
(* Reading an encoded message back.                                        *)
(***************************************************************************)
Min(S) == CHOOSE x \in S : \A y \in S : x <= y

\* the places of the CRLF pairs of s
CRLFAt(s) == {i \in 1..(Len(s) - 1) : s[i] = 13 /\ s[i + 1] = 10}

\* the lines of s[from..], each without its CRLF; text after the last CRLF is a line
RECURSIVE LinesFrom(_, _, _)
LinesFrom(s, from, breaks) ==
  IF breaks = {}
  THEN IF from > Len(s) THEN <<>> ELSE <<SubSeq(s, from, Len(s))>>
  ELSE LET i == Min(breaks)
       IN <<SubSeq(s, from, i - 1)>> \o LinesFrom(s, i + 2, breaks \ {i})

SplitLines(s) == LinesFrom(s, 1, CRLFAt(s))

\* the place of the first empty line (CRLF CRLF), 0 when there is none
BlankLineAt(s) ==
  LET P == {i \in 1..(Len(s) - 3) : s[i] = 13 /\ s[i + 1] = 10 /\ s[i + 2] = 13 /\ s[i + 3] = 10}
  IN IF P = {} THEN 0 ELSE Min(P)

\* the header lines before the first empty line, and the bytes after it
HeaderLines(s) == SplitLines(SubSeq(s, 1, BlankLineAt(s) + 1))
BodySection(s) == SubSeq(s, BlankLineAt(s) + 4, Len(s))

\* the name of a header line: the bytes before the first colon
HeaderName(line) ==
  LET P == {i \in 1..Len(line) : line[i] = 58}
  IN IF P = {} THEN line ELSE SubSeq(line, 1, Min(P) - 1)

\* the value of a header line: the bytes after the first ": "
HeaderValue(line) ==
  LET P == {i \in 1..Len(line) : line[i] = 58}
  IN IF P = {} THEN <<>> ELSE SubSeq(line, Min(P) + 2, Len(line))

Line(x) == x \o CRLF
HeaderLine(name, value) == name \o <<58, 32>> \o value

\* the boundaries drawn so far, in the order of the draws
RECURSIVE BoundariesOf(_)
BoundariesOf(ds) ==
  IF ds = <<>> THEN <<>>
  ELSE (IF Head(ds).ok /\ Len(Head(ds).bytes) = BoundaryBytes
        THEN <<StrBoundaryTag \o RawURLEncodeToString(Head(ds).bytes)>> ELSE <<>>)
       \o BoundariesOf(Tail(ds))

Boundaries == BoundariesOf(draws)

\* a text part as the claims describe it: delimiter, type, 7bit, empty line, text
TextPartOf(boundary, type, text) ==
  Line(StrDashDash \o boundary)
  \o Line(HeaderLine(HdrContentType, type))
  \o Line(HeaderLine(HdrCTE, Str7bit))
  \o CRLF
  \o text \o (IF HasSuffix(text, CRLF) THEN <<>> ELSE CRLF)

\* a multipart/alternative region: plain first, HTML second, one closing line
AlternativeOf(boundary) ==
  TextPartOf(boundary, StrTextPlain, normalizeCRLF(opts.Body))
  \o TextPartOf(boundary, StrTextHTML, normalizeCRLF(opts.BodyHTML))
  \o Line(StrDashDash \o boundary \o StrDashDash)

BoundaryOption(boundary) == StrBoundaryParam \o <<34>> \o boundary \o <<34>>

\* the header lines of the top-level block whose name is Content-Type
ContentTypeLines(s) ==
  LET lines == HeaderLines(s)
  IN {i \in 1..Len(lines) : HeaderName(lines[i]) = HdrContentType}

\* C4: without attachments the shape of a successful message is decided by hasPlain
\* and hasHTML alone: both give one multipart/alternative region with one boundary,
\* text/plain first and text/html second; HTML alone gives a single text/html part;
\* everything else a single text/plain part; no multipart/mixed, every text part 7bit.
C4_ShapeWithoutAttachments ==
  Succeeded /\ Len(opts.Attachments) = 0 =>
    LET out == ret.bytes
        top == HeaderLines(out)
        n == Len(top)
        body == BodySection(out)
        plain == normalizeCRLF(opts.Body)
        html == normalizeCRLF(opts.BodyHTML)
    IN /\ BlankLineAt(out) # 0
       /\ \A i \in 1..n : ~ContainsStr(top[i], StrMultipartMixed)
       /\ IF ~Blank(opts.Body) /\ ~Blank(opts.BodyHTML)
          THEN /\ Len(Boundaries) = 1
               /\ ContentTypeLines(out) = {n}
               /\ top[n] = HeaderLine(HdrContentType,
                                      StrMultipartAlternative \o BoundaryOption(Boundaries[1]))
               /\ body = AlternativeOf(Boundaries[1])
          ELSE /\ Boundaries = <<>>
               /\ ContentTypeLines(out) = {n - 1}
               /\ \A i \in 1..n : ~ContainsStr(top[i], StrMultipartAlternative)
               /\ top[n] = HeaderLine(HdrCTE, Str7bit)
               /\ IF ~Blank(opts.BodyHTML)
                  THEN /\ top[n - 1] = HeaderLine(HdrContentType, StrTextHTML)
                       /\ body = html \o (IF HasSuffix(html, CRLF) THEN <<>> ELSE CRLF)
                  ELSE /\ top[n - 1] = HeaderLine(HdrContentType, StrTextPlain)
                       /\ body = plain \o (IF HasSuffix(plain, CRLF) THEN <<>> ELSE CRLF)

\* C4 witnesses: each of the three shapes is produced, the plain one also for a
\* request whose bodies are both blank
C4_Witness ==
  /\ Succeeded /\ Len(opts.Attachments) = 0
  /\ ~Blank(opts.Body) /\ ~Blank(opts.BodyHTML)
  /\ ContainsStr(ret.bytes, StrMultipartAlternative)

\* the bytes an attachment carries: its Data, or the file at its Path
SuppliedData(a) == IF a.Data # <<>> THEN a.Data ELSE Files[a.Path]

\* the part of the i-th attachment inside the region of boundary
AttachmentPartOf(boundary, i) ==
  CRLF
  \o Line(StrDashDash \o boundary)
  \o Line(HeaderLine(HdrContentType, resolved[i].MIMEType))
  \o Line(HeaderLine(HdrCTE, StrBase64))
  \o Line(HeaderLine(HdrContentDisposition,
                     StrAttachmentSp \o contentDispositionFilename(resolved[i].Filename)))
  \o CRLF
  \o wrapBase64(SuppliedData(opts.Attachments[i]))
  \o CRLF

RECURSIVE AttachmentPartsOf(_, _)
AttachmentPartsOf(boundary, i) ==
  IF i > Len(opts.Attachments) THEN <<>>
  ELSE AttachmentPartOf(boundary, i) \o AttachmentPartsOf(boundary, i + 1)

\* the first part of a multipart/mixed message: the body by the three-way rule
BodyPartOf(inner) ==
  LET plain == normalizeCRLF(opts.Body)
      html == normalizeCRLF(opts.BodyHTML)
  IN IF ~Blank(opts.Body) /\ ~Blank(opts.BodyHTML)
     THEN Line(HeaderLine(HdrContentType, StrMultipartAlternative \o BoundaryOption(inner)))
          \o CRLF \o AlternativeOf(inner)
     ELSE IF ~Blank(opts.BodyHTML)
     THEN Line(HeaderLine(HdrContentType, StrTextHTML)) \o Line(HeaderLine(HdrCTE, Str7bit))
          \o CRLF \o html \o (IF HasSuffix(html, CRLF) THEN <<>> ELSE CRLF)
     ELSE Line(HeaderLine(HdrContentType, StrTextPlain)) \o Line(HeaderLine(HdrCTE, Str7bit))
          \o CRLF \o plain \o (IF HasSuffix(plain, CRLF) THEN <<>> ELSE CRLF)

\* C5: with attachments a successful message is one multipart/mixed region: first
\* the body by the three-way rule (a nested multipart/alternative with its own
\* boundary when both bodies are non-blank), then one part per attachment in input
\* order, each base64 with a Content-Disposition: attachment; filename... line.
C5_ShapeWithAttachments ==
  Succeeded /\ Len(opts.Attachments) > 0 =>
    LET out == ret.bytes
        top == HeaderLines(out)
        n == Len(top)
        both == ~Blank(opts.Body) /\ ~Blank(opts.BodyHTML)
        outer == Boundaries[1]
        inner == IF both THEN Boundaries[2] ELSE <<>>
    IN /\ BlankLineAt(out) # 0
       /\ Len(Boundaries) = (IF both THEN 2 ELSE 1)
       /\ ContentTypeLines(out) = {n}
       /\ top[n] = HeaderLine(HdrContentType, StrMultipartMixed \o BoundaryOption(outer))
       /\ Len(resolved) = Len(opts.Attachments)
       /\ \A i \in 1..Len(resolved) :
            LET param == contentDispositionFilename(resolved[i].Filename)
            IN HasPrefix(param, StrFilenameEq) \/ HasPrefix(param, StrFilenameStar)
       /\ BodySection(out) =
            Line(StrDashDash \o outer) \o BodyPartOf(inner) \o AttachmentPartsOf(outer, 1)
            \o Line(StrDashDash \o outer \o StrDashDash)

\* C5 witness: two attachments behind a nested multipart/alternative
C5_Witness ==
  /\ Succeeded /\ Len(opts.Attachments) = 2
  /\ ~Blank(opts.Body) /\ ~Blank(opts.BodyHTML)
  /\ opts.Attachments[1].Data = <<>> /\ opts.Attachments[2].Data # <<>>
  /\ ContainsStr(ret.bytes, StrMultipartMixed)

\* the lines of the two text bodies as they are written
TextLines ==
  Range(SplitLines(normalizeCRLF(opts.Body))) \cup Range(SplitLines(normalizeCRLF(opts.BodyHTML)))

\* some line of a text body spells a delimiter or closing line of a drawn boundary
Collides ==
  \E k \in 1..Len(Boundaries) :
    \/ (StrDashDash \o Boundaries[k]) \in TextLines
    \/ (StrDashDash \o Boundaries[k] \o StrDashDash) \in TextLines

DistinctBoundaries == Len(Boundaries) = 2 => Boundaries[1] # Boundaries[2]

\* the places of the lines of ls that equal x
LinesEqual(ls, x) == {i \in 1..Len(ls) : ls[i] = x}

\* the number of parts of the k-th region of the message: the mixed region holds
\* the body and the attachments, an alternative region the two texts
PartsOfRegion(k) ==
  IF k = 1 /\ Len(opts.Attachments) > 0 THEN 1 + Len(opts.Attachments) ELSE 2

\* the delimiter and closing lines of every region are in place
DelimitersInPlace ==
  LET ls == SplitLines(ret.bytes)
      delims(k) == LinesEqual(ls, StrDashDash \o Boundaries[k])
      closes(k) == LinesEqual(ls, StrDashDash \o Boundaries[k] \o StrDashDash)
  IN /\ HasSuffix(ret.bytes, CRLF)
     /\ ls[Len(ls)] = StrDashDash \o Boundaries[1] \o StrDashDash
     /\ \A k \in 1..Len(Boundaries) :
          /\ Cardinality(delims(k)) = PartsOfRegion(k)
          /\ Cardinality(closes(k)) = 1
          /\ \A d \in delims(k) : \A c \in closes(k) : d < c
     /\ Len(Boundaries) = 2 =>
          \A c \in closes(2) :
            /\ Min(delims(1)) < c
            /\ \A d \in delims(1) \ {Min(delims(1))} : c < d

RECURSIVE PartsFrom(_, _, _)
PartsFrom(ls, delims, stop) ==
  IF delims = {} THEN <<>>
  ELSE LET d == Min(delims)
           rest == delims \ {d}
           next == IF rest = {} THEN stop ELSE Min(rest)
       IN <<SubSeq(ls, d + 1, next - 1)>> \o PartsFrom(ls, rest, stop)

\* the parts of the region of boundary inside the lines ls: it ends at the first
\* closing line
RegionParts(ls, boundary) ==
  LET closes == LinesEqual(ls, StrDashDash \o boundary \o StrDashDash)
      stop == IF closes = {} THEN Len(ls) + 1 ELSE Min(closes)
  IN PartsFrom(ls, {d \in LinesEqual(ls, StrDashDash \o boundary) : d < stop}, stop)

\* the place of the empty line that ends the header block of a part
PartBlankAt(part) ==
  LET P == LinesEqual(part, <<>>) IN IF P = {} THEN Len(part) + 1 ELSE Min(P)

\* the value of the first header of a part with the given name, "" when absent
PartHeader(part, name) ==
  LET P == {i \in 1..(PartBlankAt(part) - 1) : HeaderName(part[i]) = name}
  IN IF P = {} THEN <<>> ELSE HeaderValue(part[Min(P)])

PartContentLines(part) == SubSeq(part, PartBlankAt(part) + 1, Len(part))

IsMultipart(contentType) == HasPrefix(contentType, <<109, 117, 108, 116, 105, 112, 97, 114, 116, 47>>)

\* the boundary parameter of a Content-Type value: the text between the quotes
BoundaryParam(contentType) ==
  LET n == Len(StrBoundaryParam)
      P == {i \in 1..(Len(contentType) - n + 1) :
              SubSeq(contentType, i, i + n - 1) = StrBoundaryParam}
  IN IF P = {} THEN <<>> ELSE SubSeq(contentType, Min(P) + n + 1, Len(contentType) - 1)

Leaf(part) ==
  [type |-> PartHeader(part, HdrContentType), cte |-> PartHeader(part, HdrCTE),
   content |-> Join(PartContentLines(part), CRLF)]

RECURSIVE LeavesOf(_)
LeavesOf(parts) ==
  IF parts = <<>> THEN <<>>
  ELSE LET part == Head(parts)
           ct == PartHeader(part, HdrContentType)
           inner == RegionParts(PartContentLines(part), BoundaryParam(ct))
       IN (IF IsMultipart(ct) THEN [i \in 1..Len(inner) |-> Leaf(inner[i])] ELSE <<Leaf(part)>>)
          \o LeavesOf(Tail(parts))

\* the leaf parts of a message, in order
MessageLeaves(s) ==
  LET top == HeaderLines(s)
      asPart == top \o <<<<>>>>
      ct == PartHeader(asPart, HdrContentType)
  IN IF IsMultipart(ct)
     THEN LeavesOf(RegionParts(SplitLines(BodySection(s)), BoundaryParam(ct)))
     ELSE <<[type |-> ct, cte |-> PartHeader(asPart, HdrCTE), content |-> BodySection(s)]>>

\* base64.StdEncoding decoding, line breaks ignored
Base64Value(c) == (CHOOSE i \in 1..64 : StdAlphabet[i] = c) - 1

RECURSIVE Base64Decode(_)
Base64Decode(s) ==
  IF Len(s) < 4 THEN <<>>
  ELSE LET v1 == Base64Value(s[1])
           v2 == Base64Value(s[2])
           rest == Base64Decode(SubSeq(s, 5, Len(s)))
       IN IF s[3] = 61 THEN <<v1 * 4 + (v2 \div 16)>> \o rest
          ELSE IF s[4] = 61
          THEN <<v1 * 4 + (v2 \div 16), (v2 % 16) * 16 + (Base64Value(s[3]) \div 4)>> \o rest
          ELSE <<v1 * 4 + (v2 \div 16), (v2 % 16) * 16 + (Base64Value(s[3]) \div 4),
                 (Base64Value(s[3]) % 4) * 64 + Base64Value(s[4])>> \o rest

SelectLeaves(leaves, Keep(_)) ==
  LET F[i \in 0..Len(leaves)] ==
        IF i = 0 THEN <<>>
        ELSE IF Keep(leaves[i]) THEN Append(F[i - 1], leaves[i]) ELSE F[i - 1]
  IN F[Len(leaves)]

\* the payloads of the base64 parts, decoded, in order
RecoveredAttachments(s) ==
  LET IsB64(l) == l.cte = StrBase64
      atts == SelectLeaves(MessageLeaves(s), IsB64)
  IN [i \in 1..Len(atts) |->
        Base64Decode(ReplaceByte(ReplaceByte(atts[i].content, 13, <<>>), 10, <<>>))]

\* the content of the first 7bit part of the given type, "" when there is none
RecoveredText(s, type) ==
  LET IsText(l) == l.type = type /\ l.cte = Str7bit
      texts == SelectLeaves(MessageLeaves(s), IsText)
  IN IF texts = <<>> THEN <<>> ELSE texts[1].content

SuppliedPayloads == [i \in 1..Len(opts.Attachments) |-> SuppliedData(opts.Attachments[i])]

UpToFinalCRLF(x, y) == x = y \/ x = y \o CRLF \/ x \o CRLF = y

BothRegions == Succeeded /\ mixedBoundary # <<>> /\ altBoundary # <<>>

\* the random values drawn for boundaries, in the order of the draws
BoundaryDraws ==
  LET F[i \in 0..Len(draws)] ==
        IF i = 0 THEN <<>>
        ELSE IF draws[i].ok /\ Len(draws[i].bytes) = BoundaryBytes
        THEN Append(F[i - 1], draws[i].bytes) ELSE F[i - 1]
  IN F[Len(draws)]

\* C8 as stated: a successful message with a multipart/mixed region and a nested
\* multipart/alternative region has two different boundaries, whatever the random
\* source returns.
C8_BoundariesDiffer == BothRegions => mixedBoundary # altBoundary

\* C8 amended: the two boundaries of such a message are equal exactly when the
\* random source returned the same 18 bytes for both draws.
C8_BoundariesDifferWithDraws ==
  BothRegions =>
    /\ Len(BoundaryDraws) = 2
    /\ (mixedBoundary = altBoundary) <=> (BoundaryDraws[1] = BoundaryDraws[2])

\* C8 witness: both regions emitted from two different draws
C8_Witness ==
  /\ BothRegions /\ Len(BoundaryDraws) = 2
  /\ BoundaryDraws[1] # BoundaryDraws[2] /\ mixedBoundary # altBoundary

(***************************************************************************)
(* The top-level header block.                                             *)
(***************************************************************************)
TopLines == HeaderLines(ret.bytes)
TopNames == [i \in 1..Len(TopLines) |-> HeaderName(TopLines[i])]

Opt(present, name) == IF present THEN <<name>> ELSE <<>>

\* the names of the headers the encoder writes itself, up to References
OwnHeaderNames ==
  <<HdrFrom, HdrTo>> \o Opt(opts.Cc.len > 0, HdrCc) \o Opt(opts.Bcc.len > 0, HdrBcc)
    \o Opt(~Blank(opts.ReplyTo), HdrReplyTo) \o <<HdrSubject, HdrDate>>
    \o Opt(~hasHeader(opts.AdditionalHeaders, HdrMessageID), HdrMessageID)
    \o <<HdrMIMEVersion>> \o Opt(~Blank(opts.InReplyTo), HdrInReplyTo)
    \o Opt(~Blank(opts.References), HdrReferences)

\* the AdditionalHeaders keys whose key and value are both non-blank
EligibleKeys ==
  {k \in DOMAIN opts.AdditionalHeaders : ~Blank(k) /\ ~Blank(opts.AdditionalHeaders[k])}

AdditionalLine(k) == k \o StrColonSp \o opts.AdditionalHeaders[k]

\* C9: in a successful message the top-level header lines are From, To, Cc, Bcc,
\* Reply-To, Subject, Date, Message-ID, MIME-Version, In-Reply-To, References in
\* this order (Cc and Bcc iff their list is non-empty, Reply-To, In-Reply-To and
\* References iff non-blank), then one line for each AdditionalHeaders entry whose
\* key and value are both non-blank and none for the others, then Content-Type.
C9_HeaderOrder ==
  Succeeded =>
    LET n == Len(OwnHeaderNames)
        m == Cardinality(EligibleKeys)
    IN /\ Len(TopLines) \in {n + m + 1, n + m + 2}
       /\ SubSeq(TopNames, 1, n) = OwnHeaderNames
       /\ \A k \in EligibleKeys :
            Cardinality({i \in (n + 1)..(n + m) : TopLines[i] = AdditionalLine(k)}) = 1
       /\ TopNames[n + m + 1] = HdrContentType
       /\ Len(TopLines) = n + m + 2 => TopNames[n + m + 2] = HdrCTE

\* C9 witness: Reply-To, In-Reply-To, References and two additional headers written
C9_Witness ==
  /\ Succeeded /\ ~Blank(opts.ReplyTo) /\ ~Blank(opts.InReplyTo) /\ ~Blank(opts.References)
  /\ Cardinality(EligibleKeys) = 2
  /\ Len(TopLines) = Len(OwnHeaderNames) + 4

(***************************************************************************)
(* Message-ID.                                                             *)
(***************************************************************************)
StrMessageIdLower == ToLower(HdrMessageID)

\* the AdditionalHeaders keys equal to "Message-ID" ignoring letter case
MessageIDKeys == {k \in DOMAIN opts.AdditionalHeaders : ToLower(k) = StrMessageIdLower}

\* the places in the lines ls of the headers named "Message-ID" ignoring letter case
MessageIDLinesOf(ls) == {i \in 1..Len(ls) : ToLower(HeaderName(ls[i])) = StrMessageIdLower}

MessageIDLines == MessageIDLinesOf(TopLines)

MessageIDDraws == {i \in 1..Len(draws) : draws[i].ok /\ Len(draws[i].bytes) = MessageIDBytes}

\* exactly one generated Message-ID header among the lines ls, at one of the
\* places P, between Date and MIME-Version
OneGeneratedAmong(ls, P) ==
  /\ Cardinality(MessageIDDraws) = 1
  /\ Cardinality(P) = 1
  /\ \A i \in P :
       /\ i > 1 /\ i < Len(ls)
       /\ HeaderName(ls[i - 1]) = HdrDate /\ HeaderName(ls[i + 1]) = HdrMIMEVersion
       /\ \A d \in MessageIDDraws :
            ls[i] = HdrMessageID \o StrColonSp \o randomMessageID(opts.From, draws[d].bytes)

OneGeneratedIn(ls) == OneGeneratedAmong(ls, MessageIDLinesOf(ls))

OneGeneratedMessageID == OneGeneratedIn(TopLines)

\* the Message-ID headers among the lines ls, at the places P, are the caller's
\* entries: one line for each key of K
CallersEntries(ls, P, K) ==
  /\ Cardinality(P) = Cardinality(K)
  /\ \A i \in P : \E k \in K : ls[i] = AdditionalLine(k)

CallersMessageIDs(ls) == CallersEntries(ls, MessageIDLinesOf(ls), MessageIDKeys \cap EligibleKeys)

StrSubjectEncoded ==
  \* "Subject: =?utf-8?"
  HdrSubject \o StrColonSp \o <<61, 63, 117, 116, 102, 45, 56, 63>>

\* the places in the lines ls of the headers with the given name
PlacesNamed(ls, name) == {i \in 1..Len(ls) : HeaderName(ls[i]) = name}

SubjectLines == PlacesNamed(TopLines, HdrSubject)

\* the one Subject line among the lines ls, at one of the places P
SubjectLineAmong(ls, P) ==
  /\ Cardinality(P) = 1
  /\ \A i \in P :
       IF \A j \in 1..Len(opts.Subject) : opts.Subject[j] < 128
       THEN HeaderValue(ls[i]) = opts.Subject
       ELSE /\ HasPrefix(ls[i], StrSubjectEncoded)
            /\ HeaderValue(ls[i]) # opts.Subject

SubjectLineIn(ls) == SubjectLineAmong(ls, PlacesNamed(ls, HdrSubject))

\* C11: in a successful message the Subject header value is the Subject verbatim
\* when every byte of it is below 0x80; when a byte is 0x80 or more the header line
\* begins "Subject: =?utf-8?" and its value differs from the Subject.
C11_SubjectEncoding == Succeeded => SubjectLineIn(TopLines)

\* C11 witness: a subject with bytes above 0x7f long enough for two encoded words
C11_Witness ==
  /\ Succeeded /\ Len(opts.Subject) = 24 /\ opts.Subject[1] = 195
  /\ \E i \in SubjectLines : CountStr(TopLines[i], StrQWordOpen) = 2

(***************************************************************************)
(* The Content-Disposition of the attachment parts.                        *)
(***************************************************************************)
StrDispositionPrefix == HdrContentDisposition \o StrColonSp \o StrAttachmentSp

SelectLines(ls, Keep(_)) ==
  LET F[i \in 0..Len(ls)] ==
        IF i = 0 THEN <<>> ELSE IF Keep(ls[i]) THEN Append(F[i - 1], ls[i]) ELSE F[i - 1]
  IN F[Len(ls)]

\* the filename parameters of the Content-Disposition lines of a message, in order
FilenameParams(s) ==
  LET IsDisposition(l) == HasPrefix(l, StrDispositionPrefix)
      ls == SelectLines(SplitLines(s), IsDisposition)
  IN [i \in 1..Len(ls) |-> SubSeq(ls[i], Len(StrDispositionPrefix) + 1, Len(ls[i]))]

HexValue(c) == (CHOOSE i \in 1..16 : UpperHex[i] = c) - 1

\* the bytes a percent-encoded text stands for
RECURSIVE PercentDecode(_)
PercentDecode(s) ==
  IF s = <<>> THEN <<>>
  ELSE IF s[1] = 37 /\ Len(s) >= 3
  THEN <<HexValue(s[2]) * 16 + HexValue(s[3])>> \o PercentDecode(SubSeq(s, 4, Len(s)))
  ELSE <<s[1]>> \o PercentDecode(Tail(s))

\* the name of an attachment: its Filename, else the final segment of its Path,
\* none when it has neither
NameOf(a) ==
  IF a.Filename # <<>> THEN a.Filename ELSE IF a.Path = <<>> THEN <<>> ELSE Base(a.Path)

\* param is the filename parameter C12 describes for name
IsFilenameParamOf(param, name) ==
  LET f == TrimSpace(name)
      ext == SubSeq(param, Len(StrFilenameStar) + 1, Len(param))
  IN IF f = <<>> THEN param = StrFilenameAttachment
     ELSE IF \A j \in 1..Len(f) : f[j] < 128 THEN param = StrFilenameEq \o <<34>> \o f \o <<34>>
     ELSE /\ HasPrefix(param, StrFilenameStar)
          /\ ~ContainsByte(ext, 43) /\ ~ContainsByte(ext, 32)
          /\ PercentDecode(ext) = f

\* C12 as stated: every attachment part of a successful message has the filename
\* parameter filename="attachment" when the attachment's name is blank after
\* trimming (so for an attachment with Data only), filename="<name>" when the name
\* is pure ASCII, and filename*=UTF-8''<percent-encoded name> without '+' when the
\* name has a byte of 0x80 or more.
C12_FilenameParameter ==
  Succeeded =>
    /\ Len(FilenameParams(ret.bytes)) = Len(opts.Attachments)
    /\ \A i \in 1..Len(opts.Attachments) :
         IsFilenameParamOf(FilenameParams(ret.bytes)[i], NameOf(opts.Attachments[i]))

(***************************************************************************)
(* The helpers called on their own: args holds the arguments, result what  *)
(* was returned, and the variables of buildRFC822 rest.                    *)
(***************************************************************************)
Idle ==
  /\ opts = MkOpts(<<>>, [To |-> NilSlice, Cc |-> NilSlice, Bcc |-> NilSlice], <<>>, <<>>,
                   <<>>, <<>>, <<>>, <<>>, NoHeaders, <<>>)
  /\ mem = <<>> /\ mem0 = <<>> /\ b = <<>>
  /\ ret = [nil |-> TRUE, bytes |-> <<>>, err |-> NoError]
  /\ pending = {} /\ mixedBoundary = <<>> /\ altBoundary = <<>> /\ attIdx = 1
  /\ draws = <<>> /\ resolved = <<>> /\ reads = <<>>

IdleUnchanged ==
  UNCHANGED <<opts, mem, mem0, b, ret, pending, mixedBoundary, altBoundary, attIdx, draws,
              resolved, reads>>

(***************************************************************************)
(* wrapBase64 on every byte sequence up to MaxWrapLen.                     *)
(***************************************************************************)
MaxWrapLen == 120

\* byte sequences of every length: all zero, a ramp, a descending ramp
WrapInputs == {[i \in 1..n |-> (i * k) % 256] : n \in 0..MaxWrapLen, k \in {0, 37, 255}}

WrapInit ==
  /\ \E d \in WrapInputs : args = [fn |-> "wrapBase64", b |-> d]
  /\ result = <<>>
  /\ pc = "call"
  /\ Idle
  /\ FetchIdle

CallWrapBase64 ==
  /\ pc = "call"
  /\ args.fn = "wrapBase64"
  /\ result' = wrapBase64(args.b)
  /\ pc' = "returned"
  /\ UNCHANGED args
  /\ IdleUnchanged
  /\ UNCHANGED fetchVars

WrapSpec == WrapInit /\ [][CallWrapBase64]_vars

\* the pieces of s between its CRLFs
RECURSIVE SplitAtCRLF(_)
SplitAtCRLF(s) ==
  LET P == {i \in 1..(Len(s) - 1) : s[i] = 13 /\ s[i + 1] = 10}
  IN IF P = {} THEN <<s>>
     ELSE <<SubSeq(s, 1, Min(P) - 1)>> \o SplitAtCRLF(SubSeq(s, Min(P) + 2, Len(s)))

\* the lines of a wrapped text; an empty text has none
WrappedLines(s) == IF s = <<>> THEN <<>> ELSE SplitAtCRLF(s)

RECURSIVE Concat(_)
Concat(seqs) == IF seqs = <<>> THEN <<>> ELSE Head(seqs) \o Concat(Tail(seqs))

WrapReturned == pc = "returned" /\ args.fn = "wrapBase64"

\* C13: wrapBase64 returns lines separated by CRLF; every line has at most 76
\* characters, every line but the last exactly 76, no line is empty, there is no
\* line break at the end, and the lines together are the padded standard base64
\* of the input (4 characters for every 3 bytes begun, decoding to the input).
C13_WrapBase64Lines ==
  WrapReturned =>
    LET ls == WrappedLines(result)
        enc == Concat(ls)
    IN /\ \A i \in 1..Len(ls) : Len(ls[i]) >= 1 /\ Len(ls[i]) <= 76
       /\ \A i \in 1..(Len(ls) - 1) : Len(ls[i]) = 76
       /\ ~HasSuffix(result, CRLF)
       /\ \A i \in 1..Len(enc) : enc[i] = 61 \/ \E j \in 1..64 : StdAlphabet[j] = enc[i]
       /\ Len(enc) = 4 * ((Len(args.b) + 2) \div 3)
       /\ Base64Decode(enc) = args.b

\* C13 witness: an input that fills two lines and begins a third
C13_Witness ==
  /\ WrapReturned /\ Len(WrappedLines(result)) = 3
  /\ Len(WrappedLines(result)[3]) < 76 /\ args.b[1] = 37

(***************************************************************************)
(* The resolution of the attachments.                                      *)
(***************************************************************************)
\* attachment a has neither Data nor a Path that can be read
Unreadable(a) == a.Data = <<>> /\ a.Path \notin DOMAIN Files

\* the paths of the first n attachments that have no Data, in order
RECURSIVE PathsToRead(_)
PathsToRead(n) ==
  IF n = 0 THEN <<>>
  ELSE IF opts.Attachments[n].Data = <<>>
  THEN Append(PathsToRead(n - 1), opts.Attachments[n].Path)
  ELSE PathsToRead(n - 1)

InferredType(filename) ==
  LET byExt == TypeByExtension(ToLower(Ext(filename)))
  IN IF byExt = <<>> THEN StrOctetStream ELSE byExt

\* the i-th resolved attachment, when "blank" is what Missing(_) says
ResolvedAs(i, Missing(_)) ==
  LET a == opts.Attachments[i]
      r == resolved[i]
  IN /\ r.Path = a.Path
     /\ r.Filename = (IF Missing(a.Filename) THEN Base(a.Path) ELSE a.Filename)
     /\ r.MIMEType = (IF Missing(a.MIMEType) THEN InferredType(r.Filename) ELSE a.MIMEType)
     /\ r.Data = (IF a.Data # <<>> THEN a.Data ELSE Files[a.Path])

\* the attachments are taken in input order, only those without Data are read,
\* and the first one that cannot be read ends the encode with the filesystem error
ResolutionOrder ==
  /\ Len(resolved) <= Len(opts.Attachments)
  /\ \A i \in 1..Len(resolved) : ~Unreadable(opts.Attachments[i])
  /\ Succeeded => Len(resolved) = Len(opts.Attachments)
  /\ Done /\ ret.err = ReadFileError =>
       /\ Len(resolved) < Len(opts.Attachments)
       /\ Unreadable(opts.Attachments[Len(resolved) + 1])
       /\ reads = PathsToRead(Len(resolved) + 1)
  /\ ~(Done /\ ret.err = ReadFileError) => reads = PathsToRead(Len(resolved))
  /\ Done /\ (\E i \in 1..Len(opts.Attachments) : Unreadable(opts.Attachments[i]))
       => ret.err # NoError

\* C14 as stated, blank meaning blank after trimming as in the rest of the
\* description: each attachment is resolved in input order, a blank Filename
\* becomes the final segment of Path, a blank MIMEType is inferred from the
\* extension of the filename (application/octet-stream when unknown), non-empty
\* Data is used without reading Path, empty Data is read from Path, and an
\* attachment with neither fails the encode with the filesystem error.
C14_ResolutionBlank ==
  /\ ResolutionOrder
  /\ \A i \in 1..Len(resolved) : ResolvedAs(i, Blank)

IsEmpty(v) == v = <<>>

\* C14 amended: the same, where only an empty (zero-length) Filename becomes the
\* final segment of Path and only an empty MIMEType is inferred; a Filename or
\* MIMEType made of whitespace is kept as supplied.
C14_ResolutionEmpty ==
  /\ ResolutionOrder
  /\ \A i \in 1..Len(resolved) : ResolvedAs(i, IsEmpty)

\* C14 witness: a named attachment with Data, then one read from its Path and
\* named and typed after it
C14_Witness ==
  /\ Succeeded /\ Len(resolved) = 2 /\ Len(reads) = 1
  /\ opts.Attachments[2].Filename = <<>> /\ opts.Attachments[1].Data # <<>>
  /\ resolved[2].Filename = <<120, 46, 112, 100, 102>>
  /\ resolved[2].Data = <<37, 80, 68, 70>>

(***************************************************************************)
(* The caller's request.                                                   *)
(***************************************************************************)
\* C15: at every point of a call the caller's memory behind To, Cc and Bcc holds
\* what it held when buildRFC822 was called, so To, Cc and Bcc read as they did
\* (opts itself, with AdditionalHeaders and the attachment descriptors, is a
\* parameter no step assigns).
C15_RequestUnchanged ==
  /\ mem = mem0
  /\ Elems(mem, opts.To) = ToList
  /\ Elems(mem, opts.Cc) = CcList
  /\ Elems(mem, opts.Bcc) = BccList

(***************************************************************************)
(* Validation and the output buffer.                                       *)
(***************************************************************************)
\* the call ended on a failed validation check
ValidationFailed == Done /\ (IsMissingField(ret.err) \/ IsInvalidHeader(ret.err))

\* the checks made before var b is written: required fields, From, the addresses
EarlyCheckFailed ==
  \/ IsMissingField(ret.err)
  \/ IsInvalidHeader(ret.err) /\ ret.err.text \in {"invalid From", "invalid address"}

\* C16 as stated: every validation check is made before the first byte is written
\* to the output buffer, so a check that fails finds the buffer empty.
C16_ValidationBeforeWrite == ValidationFailed => b = <<>>

\* C16 amended: the required fields, From and the addresses are checked before the
\* first byte is written; ReplyTo, Subject, InReplyTo, References and the
\* AdditionalHeaders values are checked after the From and To lines are in the
\* buffer; the buffer is local and a failed check returns no bytes of it.
C16_ValidationDiscardsBuffer ==
  ValidationFailed =>
    /\ ret.nil /\ ret.bytes = <<>>
    /\ EarlyCheckFailed => b = <<>>
    /\ ~EarlyCheckFailed =>
         HasPrefix(b, HdrFrom \o StrColonSp \o opts.From \o CRLF \o HdrTo \o StrColonSp)

\* C16 witness: InReplyTo fails its check with header lines in the buffer
C16_Witness ==
  /\ ValidationFailed /\ ret.err.text = "invalid In-Reply-To"
  /\ ContainsStr(b, HdrMIMEVersion) /\ ret.nil

(***************************************************************************)
(* randomMessageID on its own.                                             *)
(***************************************************************************)
MaxFromLen == 3

\* 'a', '@', ' ', '>', '<', '.'
FromAlphabet == {97, 64, 32, 62, 60, 46}

RECURSIVE StringsUpTo(_)
StringsUpTo(n) ==
  IF n = 0 THEN {<<>>}
  ELSE LET shorter == StringsUpTo(n - 1)
       IN shorter \cup {Append(x, c) : x \in {y \in shorter : Len(y) = n - 1}, c \in FromAlphabet}

\* senders as callers write them, and every short text over FromAlphabet
MessageIDFroms ==
  { \* 'a@b.c'
    <<97, 64, 98, 46, 99>>,
    \* 'N <a@b.c>'
    <<78, 32, 60, 97, 64, 98, 46, 99, 62>>,
    \* '<a@b.c>'
    <<60, 97, 64, 98, 46, 99, 62>>,
    \* 'a@b.c>'
    <<97, 64, 98, 46, 99, 62>>,
    \* 'N a@b.c>'
    <<78, 32, 97, 64, 98, 46, 99, 62>>,
    \* ' a@b.c '
    <<32, 97, 64, 98, 46, 99, 32>>,
    \* 'a b@c@d.e'
    <<97, 32, 98, 64, 99, 64, 100, 46, 101>>,
    \* 'N <a@b.c> x'
    <<78, 32, 60, 97, 64, 98, 46, 99, 62, 32, 120>>,
    \* 'nobody'
    <<110, 111, 98, 111, 100, 121>>,
    \* 'a@'
    <<97, 64>>,
    \* 'a@b.c >'
    <<97, 64, 98, 46, 99, 32, 62>> }
  \cup StringsUpTo(MaxFromLen)

MessageIDInit ==
  /\ \E f \in MessageIDFroms : args = [fn |-> "randomMessageID", from |-> f]
  /\ result = <<>>
  /\ pc = "call"
  /\ Idle
  /\ FetchIdle

CallRandomMessageID ==
  /\ pc = "call"
  /\ args.fn = "randomMessageID"
  /\ \E r \in RandRead(MessageIDBytes) :
       /\ draws' = Append(draws, r)
       /\ result' = IF r.ok THEN [id |-> randomMessageID(args.from, r.bytes), err |-> NoError]
                    ELSE [id |-> <<>>, err |-> RandError]
  /\ pc' = "returned"
  /\ UNCHANGED <<fetchVars, args, opts, mem, mem0, b, ret, pending, mixedBoundary, altBoundary, attIdx,
                 resolved, reads>>

MessageIDSpec == MessageIDInit /\ [][CallRandomMessageID]_vars

MessageIDReturned == pc = "returned" /\ args.fn = "randomMessageID" /\ result.err = NoError

AfterLastAt(s) == SubSeq(s, LastIndexByte(s, 64) + 1, Len(s))

\* the domain C17 describes for a sender
DomainOf(from) ==
  LET parsed == ParseAddress(TrimSpace(from))
      raw == TrimSet(AfterLastAt(from), {32, 62})
  IN IF parsed.ok THEN AfterLastAt(parsed.addr)
     ELSE IF ContainsByte(from, 64) /\ raw # <<>> THEN raw
     ELSE StrDefaultDomain

\* C17 as stated: the generated Message-ID is <local@domain>, local the unpadded
\* URL-safe base64 of the 16 random bytes, domain non-empty: the text after the
\* last '@' of the parsed address when From parses as a mailbox, else the text
\* after the last '@' of From with spaces and '>' trimmed, else gogcli.local.
C17_MessageIDForm ==
  MessageIDReturned =>
    LET local == RawURLEncodeToString(draws[1].bytes)
    IN /\ Len(local) = 22
       /\ DomainOf(args.from) # <<>>
       /\ result.id = <<60>> \o local \o <<64>> \o DomainOf(args.from) \o <<62>>

(***************************************************************************)
(* Reply-To, In-Reply-To, References.                                      *)
(***************************************************************************)
\* the top-level header lines of the given name
LinesNamed(name) == PlacesNamed(TopLines, name)

\* the top-level header block as bytes, up to the CRLF of its last line
HeaderSection == SubSeq(ret.bytes, 1, BlankLineAt(ret.bytes) + 1)

\* among the lines ls (the header block being the bytes block) the field v has its
\* one line "name: v" with v trimmed, at one of the places P, or none when v is blank
OptionalLineAmong(ls, block, P, name, v) ==
  IF Blank(v) THEN P = {}
  ELSE /\ Cardinality(P) = 1
       /\ \A i \in P : ls[i] = name \o StrColonSp \o TrimSpace(v)
       /\ ContainsStr(block, CRLF \o name \o StrColonSp \o TrimSpace(v) \o CRLF)

OptionalLine(ls, block, name, v) == OptionalLineAmong(ls, block, PlacesNamed(ls, name), name, v)

OptionalLines(ls, block) ==
  /\ OptionalLine(ls, block, HdrReplyTo, opts.ReplyTo)
  /\ OptionalLine(ls, block, HdrInReplyTo, opts.InReplyTo)
  /\ OptionalLine(ls, block, HdrReferences, opts.References)

\* C18: in a successful message each of ReplyTo, InReplyTo and References that is
\* non-blank after trimming has exactly one line "Reply-To: v", "In-Reply-To: v",
\* "References: v" ended by CRLF, v being the field without its leading and
\* trailing whitespace; a blank field has no such line.
C18_OptionalHeaderLines == Succeeded => OptionalLines(TopLines, HeaderSection)

\* C18 witness: ReplyTo and References with whitespace around them, written trimmed
C18_Witness ==
  /\ Succeeded
  /\ opts.ReplyTo # TrimSpace(opts.ReplyTo) /\ ~Blank(opts.ReplyTo)
  /\ opts.References # TrimSpace(opts.References) /\ ~Blank(opts.References)
  /\ ~Blank(opts.InReplyTo)
  /\ Cardinality(LinesNamed(HdrReplyTo) \cup LinesNamed(HdrInReplyTo) \cup LinesNamed(HdrReferences)) = 3

(***************************************************************************)
(* The Gmail recipient allowlist (checkGmailAllowlist and its helpers).    *)
(***************************************************************************)
StrMailto == <<109, 97, 105, 108, 116, 111, 58>>
StrEnforce == <<101, 110, 102, 111, 114, 99, 101>>
StrWarn == <<119, 97, 114, 110>>
StrOff == <<111, 102, 102>>

\* strings.TrimPrefix
TrimPrefix(s, prefix) == IF HasPrefix(s, prefix) THEN SubSeq(s, Len(prefix) + 1, Len(s)) ELSE s

\* strings.Index(s, string(c)), 1-based, 0 when absent
IndexByte(s, c) ==
  IF \A i \in 1..Len(s) : s[i] # c THEN 0
  ELSE CHOOSE i \in 1..Len(s) : s[i] = c /\ \A j \in 1..(i - 1) : s[j] # c

\* the pieces of s between its commas
RECURSIVE SplitComma(_)
SplitComma(s) ==
  IF IndexByte(s, 44) = 0 THEN <<s>>
  ELSE <<SubSeq(s, 1, IndexByte(s, 44) - 1)>> \o SplitComma(SubSeq(s, IndexByte(s, 44) + 1, Len(s)))

\* the elements of seq that are not blank after trimming, in order
RECURSIVE nonBlank(_)
nonBlank(seq) ==
  IF seq = <<>> THEN <<>>
  ELSE (IF TrimSpace(Head(seq)) # <<>> THEN <<Head(seq)>> ELSE <<>>) \o nonBlank(Tail(seq))

\* the addresses of the entries of a list, when every entry parses
RECURSIVE parseEach(_)
parseEach(pieces) ==
  IF pieces = <<>> THEN [ok |-> TRUE, addrs |-> <<>>]
  ELSE IF ~ParseAddress(Head(pieces)).ok THEN [ok |-> FALSE, addrs |-> <<>>]
  ELSE [ok |-> parseEach(Tail(pieces)).ok,
        addrs |-> <<ParseAddress(Head(pieces)).addr>> \o parseEach(Tail(pieces)).addrs]

parseNonEmpty(pieces) ==
  IF pieces = <<>> THEN [ok |-> FALSE, addrs |-> <<>>] ELSE parseEach(pieces)

\* mail.ParseAddressList: addresses separated by commas, empty entries skipped
ParseAddressList(s) == parseNonEmpty(nonBlank(SplitComma(s)))

\* normalizeEmailAddress once value is trimmed and parsed
normalizeParsed(v, parsed) ==
  IF v = <<>> THEN <<>>
  ELSE ToLower(TrimSpace(IF parsed.ok /\ parsed.addr # <<>> THEN parsed.addr ELSE v))

normalizeTrimmed(v) == normalizeParsed(v, ParseAddress(v))

normalizeEmailAddress(value) == normalizeTrimmed(TrimSpace(value))

RECURSIVE normalizeEach(_)
normalizeEach(addrs) ==
  IF addrs = <<>> THEN <<>>
  ELSE <<normalizeEmailAddress(Head(addrs))>> \o normalizeEach(Tail(addrs))

\* the emails extractEmails appends for one trimmed value, list being what
\* mail.ParseAddressList made of it
emailsOfList(v, list) ==
  IF v = <<>> THEN <<>>
  ELSE IF list.ok /\ Len(list.addrs) > 0 THEN nonBlank(normalizeEach(list.addrs))
  ELSE nonBlank(<<normalizeEmailAddress(v)>>)

emailsOfTrimmed(v) == emailsOfList(v, ParseAddressList(v))

emailsOf(v) == emailsOfTrimmed(TrimSpace(v))

RECURSIVE extractEmails(_)
extractEmails(values) ==
  IF values = <<>> THEN <<>> ELSE emailsOf(Head(values)) \o extractEmails(Tail(values))

EmptyAllowlist == [emails |-> {}, domains |-> {}, suffixDomains |-> <<>>]

\* the switch of parseAllowlistEntries on a normalized, non-empty entry
addNormalized(list, normalized) ==
  IF HasPrefix(normalized, <<42, 46>>) \/ HasPrefix(normalized, <<46>>)
  THEN IF TrimPrefix(TrimPrefix(normalized, <<42, 46>>), <<46>>) # <<>>
       THEN [list EXCEPT !.suffixDomains =
               Append(@, TrimPrefix(TrimPrefix(normalized, <<42, 46>>), <<46>>))]
       ELSE list
  ELSE IF HasPrefix(normalized, <<64>>)
  THEN IF TrimPrefix(normalized, <<64>>) # <<>>
       THEN [list EXCEPT !.domains = @ \cup {TrimPrefix(normalized, <<64>>)}]
       ELSE list
  ELSE IF ContainsByte(normalized, 64)
  THEN [list EXCEPT !.emails = @ \cup {normalized}]
  ELSE [list EXCEPT !.domains = @ \cup {normalized}]

addLowered(list, lowered) ==
  IF lowered = <<>> THEN list ELSE addNormalized(list, TrimPrefix(lowered, StrMailto))

\* one turn of the loop of parseAllowlistEntries
addEntry(list, entry) == addLowered(list, ToLower(TrimSpace(entry)))

RECURSIVE parseEntriesFrom(_, _)
parseEntriesFrom(list, entries) ==
  IF entries = <<>> THEN list ELSE parseEntriesFrom(addEntry(list, Head(entries)), Tail(entries))

parseAllowlistEntries(entries) == parseEntriesFrom(EmptyAllowlist, entries)

empty(a) == a.emails = {} /\ a.domains = {} /\ a.suffixDomains = <<>>

\* a suffix loop that matches the suffix anywhere at the end of the domain
allowsSuffixLoose(a, domain) ==
  \E i \in 1..Len(a.suffixDomains) : HasSuffix(domain, a.suffixDomains[i])

\* the suffix loop of allows
allowsSuffix(a, domain) ==
  \E i \in 1..Len(a.suffixDomains) :
    \/ domain = a.suffixDomains[i]
    \/ HasSuffix(domain, <<46>> \o a.suffixDomains[i])

\* the plus-address test of allows, plus being the place of the first '+' of local
allowsPlus(a, local, domain, plus) ==
  /\ plus # 0
  /\ TrimSpace(SubSeq(local, 1, plus - 1)) # <<>>
  /\ (TrimSpace(SubSeq(local, 1, plus - 1)) \o <<64>> \o domain) \in a.emails

allowsParts(a, local, domain) ==
  \/ allowsPlus(a, local, domain, IndexByte(local, 43))
  \/ domain \in a.domains
  \/ allowsSuffix(a, domain)

\* allows once email is normalized, at being the place of its last '@'
allowsSplit(a, email, at) ==
  /\ email # <<>>
  /\ \/ email \in a.emails
     \/ /\ at # 0 /\ at < Len(email)
        /\ allowsParts(a, SubSeq(email, 1, at - 1), SubSeq(email, at + 1, Len(email)))

allowsEmail(a, email) == allowsSplit(a, email, LastIndexByte(email, 64))

allows(a, value) == allowsEmail(a, normalizeEmailAddress(value))

\* [mode, ok] for the lower-cased, trimmed value of GOG_GMAIL_ALLOWLIST_MODE
modeOf(mode) ==
  IF mode = <<>> \/ mode = StrEnforce THEN [mode |-> "enforce", ok |-> TRUE]
  ELSE IF mode = StrWarn THEN [mode |-> "warn", ok |-> TRUE]
  ELSE IF mode = StrOff THEN [mode |-> "off", ok |-> TRUE]
  ELSE [mode |-> "off", ok |-> FALSE]

gmailAllowlistMode(value) == modeOf(ToLower(TrimSpace(value)))

\* the loop of blockedRecipients over the extracted recipients
RECURSIVE notAllowed(_, _)
notAllowed(allowlist, rs) ==
  IF rs = <<>> THEN <<>>
  ELSE (IF ~allows(allowlist, Head(rs)) THEN <<Head(rs)>> ELSE <<>>)
       \o notAllowed(allowlist, Tail(rs))

blockedRecipients(allowlist, recipients) == notAllowed(allowlist, extractEmails(recipients))

NilError == [text |-> "nil", blocked |-> <<>>]

\* the end of checkGmailAllowlist, blocked being what blockedRecipients returned
checkBlocked(mode, blocked) ==
  IF blocked = <<>> THEN NilError
  ELSE IF mode = "warn" THEN NilError
  ELSE [text |-> "blocked recipient(s) not in allowlist", blocked |-> blocked]

\* checkGmailAllowlist once the allowlist is loaded
checkLoaded(mode, allowlist, recipients) ==
  IF empty(allowlist) THEN [text |-> "gmail allowlist empty", blocked |-> <<>>]
  ELSE checkBlocked(mode, blockedRecipients(allowlist, recipients))

\* checkGmailAllowlist once the mode is known, load being what loadGmailAllowlist
\* gathers: its entries or its error
checkMode(mode, load, recipients) ==
  IF ~mode.ok THEN [text |-> "invalid GOG_GMAIL_ALLOWLIST_MODE", blocked |-> <<>>]
  ELSE IF mode.mode = "off" THEN NilError
  ELSE IF ~load.ok THEN [text |-> "load", blocked |-> <<>>]
  ELSE checkLoaded(mode.mode, parseAllowlistEntries(load.entries), recipients)

checkGmailAllowlist(modeValue, load, recipients) ==
  checkMode(gmailAllowlistMode(modeValue), load, recipients)

MaxRecipients == 2

AllowlistEntryLists ==
  { \* []
    <<>>,
    \* ['a@x.io']
    <<<<97, 64, 120, 46, 105, 111>>>>,
    \* ['@y.io']
    <<<<64, 121, 46, 105, 111>>>>,
    \* ['*.z.io']
    <<<<42, 46, 122, 46, 105, 111>>>>,
    \* ['y.io']
    <<<<121, 46, 105, 111>>>>,
    \* ['mailto:A@X.io ']
    <<<<109, 97, 105, 108, 116, 111, 58, 65, 64, 88, 46, 105, 111, 32>>>>,
    \* [' ', '*.']
    <<<<32>>, <<42, 46>>>>,
    \* ['a@x.io', '@y.io', '*.z.io']
    <<<<97, 64, 120, 46, 105, 111>>, <<64, 121, 46, 105, 111>>, <<42, 46, 122, 46, 105, 111>>>>,
    \* ['.z.io', '@']
    <<<<46, 122, 46, 105, 111>>, <<64>>>> }

RecipientPool ==
  { \* 'a@x.io'
    <<97, 64, 120, 46, 105, 111>>,
    \* 'A <a@x.io>'
    <<65, 32, 60, 97, 64, 120, 46, 105, 111, 62>>,
    \* 'a+t@x.io'
    <<97, 43, 116, 64, 120, 46, 105, 111>>,
    \* 'b@y.io'
    <<98, 64, 121, 46, 105, 111>>,
    \* 'c@s.z.io'
    <<99, 64, 115, 46, 122, 46, 105, 111>>,
    \* 'c@z.io'
    <<99, 64, 122, 46, 105, 111>>,
    \* 'e@evil.io'
    <<101, 64, 101, 118, 105, 108, 46, 105, 111>>,
    \* 'e@xz.io'
    <<101, 64, 120, 122, 46, 105, 111>>,
    \* 'b@y.io, e@evil.io'
    <<98, 64, 121, 46, 105, 111, 44, 32, 101, 64, 101, 118, 105, 108, 46, 105, 111>>,
    \* ' '
    <<32>>,
    \* 'junk'
    <<106, 117, 110, 107>>,
    \* '+t@x.io'
    <<43, 116, 64, 120, 46, 105, 111>>,
    \* 'B@Y.IO'
    <<66, 64, 89, 46, 73, 79>> }

RECURSIVE RecipientLists(_)
RecipientLists(n) ==
  IF n = 0 THEN {<<>>}
  ELSE LET shorter == RecipientLists(n - 1)
       IN shorter \cup {Append(l, r) : l \in {x \in shorter : Len(x) = n - 1}, r \in RecipientPool}

ModeValues ==
  { \* ''
    <<>>,
    \* ' Enforce '
    <<32, 69, 110, 102, 111, 114, 99, 101, 32>>,
    \* 'warn'
    <<119, 97, 114, 110>>,
    \* 'off'
    <<111, 102, 102>>,
    \* 'bogus'
    <<98, 111, 103, 117, 115>> }

LoadOutcomes ==
  {[ok |-> FALSE, entries |-> <<>>]} \cup {[ok |-> TRUE, entries |-> e] : e \in AllowlistEntryLists}

AllowlistInit ==
  /\ \/ \E e \in AllowlistEntryLists, r \in RecipientLists(MaxRecipients) :
          args = [fn |-> "blockedRecipients", entries |-> e, recipients |-> r]
     \/ \E m \in ModeValues, l \in LoadOutcomes, r \in RecipientLists(MaxRecipients) :
          args = [fn |-> "checkGmailAllowlist", mode |-> m, load |-> l, recipients |-> r]
  /\ result = <<>>
  /\ pc = "call"
  /\ Idle
  /\ FetchIdle

CallBlockedRecipients ==
  /\ pc = "call"
  /\ args.fn = "blockedRecipients"
  /\ result' = blockedRecipients(parseAllowlistEntries(args.entries), args.recipients)
  /\ pc' = "returned"
  /\ UNCHANGED args
  /\ IdleUnchanged
  /\ UNCHANGED fetchVars

CallCheckGmailAllowlist ==
  /\ pc = "call"
  /\ args.fn = "checkGmailAllowlist"
  /\ result' = checkGmailAllowlist(args.mode, args.load, args.recipients)
  /\ pc' = "returned"
  /\ UNCHANGED args
  /\ IdleUnchanged
  /\ UNCHANGED fetchVars

AllowlistNext == CallBlockedRecipients \/ CallCheckGmailAllowlist

AllowlistSpec == AllowlistInit /\ [][AllowlistNext]_vars

(***************************************************************************)
(* C19: the allowlist in enforce mode.                                     *)
(***************************************************************************)

\* email is on the allowlist a: listed itself, or, split at its last '@' with
\* something after it, a plus-address whose base is listed, an address of a
\* listed domain, or an address of a listed suffix or of a subdomain of it
AllowedAddress(a, email) ==
  /\ email # <<>>
  /\ \/ email \in a.emails
     \/ \E at \in 1..(Len(email) - 1) :
          /\ email[at] = 64
          /\ \A j \in (at + 1)..Len(email) : email[j] # 64
          /\ LET local == SubSeq(email, 1, at - 1)
                 domain == SubSeq(email, at + 1, Len(email))
             IN \/ \E p \in 2..Len(local) :
                     /\ local[p] = 43
                     /\ \A j \in 1..(p - 1) : local[j] # 43
                     /\ (SubSeq(local, 1, p - 1) \o <<64>> \o domain) \in a.emails
                \/ domain \in a.domains
                \/ \E k \in 1..Len(a.suffixDomains) :
                     \/ domain = a.suffixDomains[k]
                     \/ \E n \in 1..Len(domain) :
                          SubSeq(domain, n, Len(domain)) = <<46>> \o a.suffixDomains[k]

\* the addresses of rs that are not on the allowlist a, in the order of rs
RECURSIVE NotOnAllowlist(_, _)
NotOnAllowlist(a, rs) ==
  IF rs = <<>> THEN <<>>
  ELSE (IF AllowedAddress(a, Head(rs)) THEN <<>> ELSE <<Head(rs)>>) \o NotOnAllowlist(a, Tail(rs))

EnforceMode(value) == ToLower(TrimSpace(value)) \in {<<>>, StrEnforce}

AllowlistReturned == pc = "returned" /\ "entries" \in DOMAIN args /\ args.fn = "blockedRecipients"

CheckReturned == pc = "returned" /\ "mode" \in DOMAIN args /\ args.fn = "checkGmailAllowlist"

\* C19: in enforce mode checkGmailAllowlist returns nil only if the allowlist
\* was loaded, is not empty and every address extracted from the recipients
\* is on it, and an extracted address that is not on it makes the check fail;
\* blockedRecipients returns exactly the extracted addresses that are not on
\* the allowlist, in the order of the input.
C19_EnforceMode ==
  /\ AllowlistReturned =>
       result = NotOnAllowlist(parseAllowlistEntries(args.entries), extractEmails(args.recipients))
  /\ (CheckReturned /\ EnforceMode(args.mode)) =>
       /\ result = NilError =>
            /\ args.load.ok
            /\ ~empty(parseAllowlistEntries(args.load.entries))
            /\ NotOnAllowlist(parseAllowlistEntries(args.load.entries),
                              extractEmails(args.recipients)) = <<>>
       /\ NotOnAllowlist(parseAllowlistEntries(args.load.entries),
                         extractEmails(args.recipients)) # <<>> => result # NilError

\* an enforce-mode check of an allowed plus-address and an address of a domain
\* that only resembles a listed suffix, which fails naming the second alone;
\* and a check that passes on a subdomain of the suffix
C19_Witness ==
  /\ CheckReturned /\ EnforceMode(args.mode) /\ args.load.ok
  /\ Len(args.load.entries) = 3
  /\ Len(args.recipients) = 2
  /\ Len(extractEmails(args.recipients)) = 2
  /\ result.text = "blocked recipient(s) not in allowlist"
  /\ Len(result.blocked) = 1
  /\ result.blocked[1] = extractEmails(args.recipients)[2]
  /\ ContainsByte(extractEmails(args.recipients)[1], 43)
  /\ \E k \in 1..Len(parseAllowlistEntries(args.load.entries).suffixDomains) :
       HasSuffix(result.blocked[1], parseAllowlistEntries(args.load.entries).suffixDomains[k])

(***************************************************************************)
(* C20: header blocks hold the intended lines only.                        *)
(***************************************************************************)
\* the parts of the outer multipart/mixed region of the output
MixedParts == RegionParts(SplitLines(BodySection(ret.bytes)), mixedBoundary)

\* the names of the lines of the header block of a part
PartNames(part) == [i \in 1..(PartBlankAt(part) - 1) |-> HeaderName(part[i])]

\* C20: in a successful message (boundaries distinct, no body line colliding
\* with one) the top-level header block has one line per header written, and the header
\* block of each attachment part is the three lines Content-Type,
\* Content-Transfer-Encoding, Content-Disposition and nothing else, whatever
\* the AdditionalHeaders names, attachment MIME types and filenames are.
C20_NoInjectedHeaderLine ==
  (Succeeded /\ DistinctBoundaries /\ ~Collides) =>
    /\ Len(TopLines) - Len(OwnHeaderNames) - Cardinality(EligibleKeys) \in {1, 2}
    /\ opts.Attachments # <<>> =>
         /\ Len(MixedParts) = 1 + Len(opts.Attachments)
         /\ \A i \in 2..Len(MixedParts) :
              PartNames(MixedParts[i]) = <<HdrContentType, HdrCTE, HdrContentDisposition>>

(***************************************************************************)
(* C21: the number of Message-ID headers.                                  *)
(***************************************************************************)
\* C21: a successful message has exactly one Message-ID header line in its
\* top-level header block, generated or supplied through AdditionalHeaders,
\* whatever the AdditionalHeaders mapping is.
C21_ExactlyOneMessageID == Succeeded => Cardinality(MessageIDLinesOf(TopLines)) = 1

(***************************************************************************)
(* C22: body lines and boundaries.                                         *)
(***************************************************************************)
\* C22: in a successful multipart message no line of a text body equals the
\* delimiter line or the closing line of a boundary of the message, whatever
\* the body text and the random source are.
C22_NoBodyLineIsDelimiter == (Succeeded /\ Len(Boundaries) > 0) => ~Collides

(***************************************************************************)
(* C23: parts declared 7bit.                                               *)
(***************************************************************************)
EightBit(s) == \E i \in 1..Len(s) : s[i] >= 128

SevenBitLeavesClean(leaves) ==
  \A i \in 1..Len(leaves) : leaves[i].cte = Str7bit => ~EightBit(leaves[i].content)

\* C23: in a successful message every part declared
\* "Content-Transfer-Encoding: 7bit" has a body without a byte of 0x80 or more.
C23_SevenBitPartsAreSevenBit == Succeeded => SevenBitLeavesClean(MessageLeaves(ret.bytes))

(***************************************************************************)
(* fetchThreadDetails: one goroutine per thread with a non-empty Id, a     *)
(* semaphore channel, a results channel, a goroutine that closes it and    *)
(* the collector loop of the caller.                                       *)
(***************************************************************************)
\* the capacity of sem.  The source has const maxConcurrency = 10; the model
\* takes a smaller capacity so that the goroutines can outnumber it.
maxConcurrency == 2
\* the largest number of input threads
MaxThreads == 3

\* the Id of the thread at each place of the input, when it has one
ThreadIds == <<"a", "b", "c", "d", "e", "f">>

\* the inputs of up to n threads: each thread has its Id or the empty Id
RECURSIVE ThreadLists(_)
ThreadLists(n) ==
  IF n = 0 THEN {<<>>}
  ELSE LET shorter == ThreadLists(n - 1)
       IN shorter \cup {Append(l, t) : l \in {x \in shorter : Len(x) = n - 1}, t \in {"", ThreadIds[n]}}

\* the zero threadItem
ZeroItem == [ID |-> "", meta |-> ""]

\* item := threadItem{ID: threadID} with the Date, From, Subject and Labels
\* read from the thread that Threads.Get returned
itemOf(threadID) == [ID |-> threadID, meta |-> "metadata"]

NoResult == [index |-> 0, item |-> ZeroItem, err |-> "nil"]

\* a capacity of one for the results channel
resultsCapOne(threads) == 1

\* results := make(chan result, len(threads))
resultsCap(threads) == Len(threads)

\* a semaphore that always has room
hasRoomAlways(n) == TRUE

\* case sem <- struct{}{}: the send can proceed
hasRoom(n) == n < maxConcurrency

\* a collector that appends the items in the order of arrival
storeInArrivalOrder(its, r) ==
  LET free == {k \in 1..Len(its) : its[k] = ZeroItem}
  IN [its EXCEPT ![CHOOSE k \in free : \A j \in free : k <= j] = r.item]

\* items[r.index] = r.item
store(its, r) == [its EXCEPT ![r.index] = r.item]

\* the loop that keeps the items whose ID is not empty
RECURSIVE filtered(_)
filtered(its) ==
  IF its = <<>> THEN <<>>
  ELSE (IF Head(its).ID # "" THEN <<Head(its)>> ELSE <<>>) \o filtered(Tail(its))

FetchInit ==
  /\ \E t \in ThreadLists(MaxThreads) : args = [fn |-> "fetchThreadDetails", threads |-> t]
  /\ result = <<>>
  /\ pc = "call"
  /\ Idle
  /\ FetchIdle

EncoderUnchanged == IdleUnchanged /\ UNCHANGED args

\* the call up to the range loop: the early return or the channels
FetchCall ==
  /\ pc = "call"
  /\ IF Len(args.threads) = 0
     THEN /\ pc' = "returned"
          /\ result' = [nil |-> TRUE, items |-> <<>>, err |-> "nil"]
          /\ UNCHANGED <<wpc, res, sent>>
     ELSE /\ pc' = "range"
          /\ wpc' = [k \in 1..Len(args.threads) |-> "none"]
          /\ res' = [k \in 1..Len(args.threads) |-> NoResult]
          /\ sent' = [k \in 1..Len(args.threads) |-> 0]
          /\ UNCHANGED result
  /\ UNCHANGED <<cancelled, sem, results, closed, wg, threadIdx, items>>
  /\ EncoderUnchanged

\* one turn of: for i, t := range threads
StartWorker ==
  /\ pc = "range"
  /\ threadIdx <= Len(args.threads)
  /\ IF args.threads[threadIdx] = ""
     THEN UNCHANGED <<wg, wpc>>
     ELSE wg' = wg + 1 /\ wpc' = [wpc EXCEPT ![threadIdx] = "select"]
  /\ threadIdx' = threadIdx + 1
  /\ UNCHANGED <<pc, result, cancelled, sem, results, closed, res, items>>
  /\ UNCHANGED sent
  /\ EncoderUnchanged

\* the end of the range: the closing goroutine is started and items is made
StartCollector ==
  /\ pc = "range"
  /\ threadIdx > Len(args.threads)
  /\ pc' = "collect"
  /\ items' = [k \in 1..Len(args.threads) |-> ZeroItem]
  /\ UNCHANGED <<result, cancelled, sem, results, closed, wg, threadIdx, wpc, res>>
  /\ UNCHANGED sent
  /\ EncoderUnchanged

\* the context is cancelled
Cancel ==
  /\ pc \in {"range", "collect"}
  /\ ~cancelled
  /\ cancelled' = TRUE
  /\ UNCHANGED <<pc, result, sem, results, closed, wg, threadIdx, wpc, res, items>>
  /\ UNCHANGED sent
  /\ EncoderUnchanged

\* select, case sem <- struct{}{}: the slot is taken and Threads.Get is issued
Acquire(i) ==
  /\ wpc[i] = "select"
  /\ hasRoom(sem)
  /\ sem' = sem + 1
  /\ wpc' = [wpc EXCEPT ![i] = "get"]
  /\ UNCHANGED <<pc, result, cancelled, results, closed, wg, threadIdx, res, items>>
  /\ UNCHANGED sent
  /\ EncoderUnchanged

\* select, case <-ctx.Done(): the result is ctx.Err()
CtxDone(i) ==
  /\ wpc[i] = "select"
  /\ cancelled
  /\ res' = [res EXCEPT ![i] = [index |-> i, item |-> ZeroItem, err |-> "context canceled"]]
  /\ wpc' = [wpc EXCEPT ![i] = "send"]
  /\ UNCHANGED <<pc, result, cancelled, sem, results, closed, wg, threadIdx, items>>
  /\ UNCHANGED sent
  /\ EncoderUnchanged

\* Threads.Get returns: an error or the thread, from which the item is built
GetReturns(i) ==
  /\ wpc[i] = "get"
  /\ \E ok \in BOOLEAN :
       res' = [res EXCEPT ![i] =
                 IF ok THEN [index |-> i, item |-> itemOf(args.threads[i]), err |-> "nil"]
                 ELSE [index |-> i, item |-> ZeroItem, err |-> "get failed"]]
  /\ wpc' = [wpc EXCEPT ![i] = "sendHolding"]
  /\ UNCHANGED <<pc, result, cancelled, sem, results, closed, wg, threadIdx, items>>
  /\ UNCHANGED sent
  /\ EncoderUnchanged

\* results <- result{...}: it proceeds when the channel has room
Send(i) ==
  /\ wpc[i] \in {"send", "sendHolding"}
  /\ Len(results) < resultsCap(args.threads)
  /\ results' = Append(results, res[i])
  /\ sent' = [sent EXCEPT ![i] = @ + 1]
  /\ wpc' = [wpc EXCEPT ![i] = IF wpc[i] = "sendHolding" THEN "release" ELSE "exit"]
  /\ UNCHANGED <<pc, result, cancelled, sem, closed, wg, threadIdx, res, items>>
  /\ EncoderUnchanged

\* the goroutine returns and its deferred calls run: func() { <-sem }() when the
\* slot was taken, then wg.Done()
Return(i) ==
  /\ wpc[i] \in {"release", "exit"}
  /\ sem' = IF wpc[i] = "release" THEN sem - 1 ELSE sem
  /\ wg' = wg - 1
  /\ wpc' = [wpc EXCEPT ![i] = "done"]
  /\ UNCHANGED <<pc, result, cancelled, results, closed, threadIdx, res, items>>
  /\ UNCHANGED sent
  /\ EncoderUnchanged

Worker(i) == Acquire(i) \/ CtxDone(i) \/ GetReturns(i) \/ Send(i) \/ Return(i)

\* go func() { wg.Wait(); close(results) }()
CloseResults ==
  /\ pc \in {"collect", "returned"}
  /\ wpc # <<>>
  /\ wg = 0
  /\ ~closed
  /\ closed' = TRUE
  /\ UNCHANGED <<pc, result, cancelled, sem, results, wg, threadIdx, wpc, res, items>>
  /\ UNCHANGED sent
  /\ EncoderUnchanged

\* one turn of: for r := range results
Receive ==
  /\ pc = "collect"
  /\ results # <<>>
  /\ results' = Tail(results)
  /\ IF Head(results).err # "nil"
     THEN /\ pc' = "returned"
          /\ result' = [nil |-> TRUE, items |-> <<>>, err |-> Head(results).err]
          /\ UNCHANGED items
     ELSE /\ items' = store(items, Head(results))
          /\ UNCHANGED <<pc, result>>
  /\ UNCHANGED <<cancelled, sem, closed, wg, threadIdx, wpc, res>>
  /\ UNCHANGED sent
  /\ EncoderUnchanged

\* the range over results ends: the channel is closed and empty
ReturnItems ==
  /\ pc = "collect"
  /\ results = <<>>
  /\ closed
  /\ pc' = "returned"
  /\ result' = [nil |-> FALSE, items |-> filtered(items), err |-> "nil"]
  /\ UNCHANGED <<cancelled, sem, results, closed, wg, threadIdx, wpc, res, items>>
  /\ UNCHANGED sent
  /\ EncoderUnchanged

Workers == \E i \in 1..MaxThreads : i \in DOMAIN wpc /\ Worker(i)

FetchNext ==
  \/ FetchCall \/ StartWorker \/ StartCollector \/ Cancel \/ Workers \/ CloseResults
  \/ Receive \/ ReturnItems

FetchSpec == FetchInit /\ [][FetchNext]_vars

\* the calling goroutine runs up to its collector loop, some goroutine that can
\* take a step takes one, and so does the closing goroutine: the Go scheduler
\* runs the runnable goroutines, and every Threads.Get call returns
FetchFairness ==
  /\ WF_vars(FetchCall \/ StartWorker \/ StartCollector)
  /\ WF_vars(Workers)
  /\ WF_vars(CloseResults)

FetchFairSpec == FetchSpec /\ FetchFairness

(***************************************************************************)
(* C24: the requests in flight.                                            *)
(***************************************************************************)
\* the goroutines whose Threads.Get request is in flight
InFlight == {i \in DOMAIN wpc : wpc[i] = "get"}

\* the goroutines between taking their slot and giving it back
Holding == {i \in DOMAIN wpc : wpc[i] \in {"get", "sendHolding", "release"}}

\* C24: at every moment at most maxConcurrency Threads.Get requests are in
\* flight: the slots taken are those of the goroutines that hold one, they are
\* never more than the capacity of sem, and a request in flight belongs to a
\* goroutine that holds a slot.
C24_BoundedInFlight ==
  /\ Cardinality(InFlight) <= maxConcurrency
  /\ sem = Cardinality(Holding)
  /\ sem <= maxConcurrency
  /\ InFlight \subseteq Holding

\* C24 witness: every slot is taken by a request in flight while another
\* goroutine waits at the select
C24_Witness ==
  /\ Cardinality(InFlight) = maxConcurrency
  /\ sem = maxConcurrency
  /\ \E i \in DOMAIN wpc : wpc[i] = "select"

(***************************************************************************)
(* C25: the items returned.                                                *)
(***************************************************************************)
\* one item for each thread with a non-empty Id, in the order of the input
RECURSIVE ExpectedItems(_)
ExpectedItems(threads) ==
  IF threads = <<>> THEN <<>>
  ELSE (IF Head(threads) # "" THEN <<[ID |-> Head(threads), meta |-> "metadata"]>> ELSE <<>>)
       \o ExpectedItems(Tail(threads))

NoFetchFailed == \A i \in DOMAIN res : res[i].err = "nil"

\* C25: when no fetch fails and the context is not cancelled the call returns
\* no error and one item for each thread with a non-empty Id, in the order of
\* the input; a thread with an empty Id gets no goroutine and no request.
C25_ItemsInInputOrder ==
  /\ \A i \in DOMAIN wpc : args.threads[i] = "" => wpc[i] = "none" /\ res[i] = NoResult
  /\ (pc = "returned" /\ ~cancelled /\ NoFetchFailed) =>
       /\ result.err = "nil"
       /\ result.items = ExpectedItems(args.threads)

\* C25 witness: three threads, the second without an Id, and the two items of
\* the others returned
C25_Witness ==
  /\ pc = "returned" /\ ~cancelled /\ NoFetchFailed
  /\ Len(args.threads) = 3 /\ args.threads[2] = ""
  /\ Len(result.items) = 2
  /\ result.items[1].ID = args.threads[1] /\ result.items[2].ID = args.threads[3]

(***************************************************************************)
(* C26: the goroutines end.                                                *)
(***************************************************************************)
\* every goroutine that was due has returned and the results channel is closed
Terminated ==
  Len(args.threads) > 0 =>
    /\ DOMAIN wpc = 1..Len(args.threads)
    /\ \A i \in DOMAIN wpc : wpc[i] = (IF args.threads[i] = "" THEN "none" ELSE "done")
    /\ closed

\* no goroutine has sent twice, and one that has returned has sent once
OneResultEach ==
  \A i \in DOMAIN wpc :
    /\ sent[i] <= 1
    /\ wpc[i] = "done" => sent[i] = 1
    /\ wpc[i] = "none" => sent[i] = 0

\* C26: every goroutine started by fetchThreadDetails ends and the results
\* channel is closed in the end, whatever the interleaving, also when the
\* collector has returned on the first error and when the context is cancelled
\* while goroutines wait for a slot; each goroutine sends exactly one result.
C26_WorkersTerminate == []OneResultEach /\ <>[]Terminated

\* C26 witness: the context was cancelled while a goroutine waited for a slot,
\* the collector returned on an error and left a result unread, and still every
\* goroutine returned and the channel was closed
C26_Witness ==
  /\ pc = "returned" /\ result.err # "nil"
  /\ Len(args.threads) = MaxThreads
  /\ Terminated
  /\ results # <<>>
  /\ \E i \in DOMAIN res : res[i].err = "context canceled"
  /\ \A i \in DOMAIN wpc : sent[i] = 1

====
